---- MODULE Spec2Model ----
(***************************************************************************)
(* A model of the MAVLink router of ur-mavrouter-super: the per-instance   *)
(* router (Mainloop), its de-duplication cache (Dedup), the extension      *)
(* manager (ExtensionManager) and the thread controller (RpcController).   *)
(*                                                                         *)
(* The specifications of the module:                                       *)
(*   Spec       router instances, threads, extension manager, controller   *)
(*   SpecExt    the extension manager alone, with two extension names      *)
(*   SpecDedup  one Dedup cache driven by check_packet and a clock         *)
(*   SpecRoute  Mainloop::route_msg over one router's endpoint list        *)
(*   SpecLocks  the lock and unlock operations of the controller's and the  *)
(*              extension manager's control paths                          *)
(*   SpecRpc    the controller's commands, Restart included, with the       *)
(*              primary router's thread                                    *)
(*   SpecEndpoints one router's endpoint list: add_endpoints, hangup sweep  *)
(*   SpecTimeouts one router's timeout list: add_timeout, del_timeout and   *)
(*              the removal at the end of a loop iteration                 *)
(*   SpecStats  one endpoint's EndpointStatistics under the periodic       *)
(*              update run by the router thread                            *)
(*   SpecPersist the extension configurations: created, saved as JSON,     *)
(*              and loaded again by the next run of the process            *)
(***************************************************************************)
EXTENDS Integers, Sequences, FiniteSets, TLC

VARIABLES
    \* ---- Dedup / DedupImpl (dedup.cpp)
    dd_period,      \* Dedup::_dedup_period_ms
    dd_queue,       \* DedupImpl::_time_hash_queue, front first: <<time, hash>>
    dd_set,         \* DedupImpl::_packet_hash_set
    dd_now,         \* ms since DedupImpl::_start_time, as the uint32 time_t
    dd_obs,         \* observer: per payload, real ms since its last submission and that result
    dd_call,        \* observer: the last check_packet call and what it returned
    dd_ins,         \* observer: per payload, real ms since its hash was last inserted
    \* ---- Mainloop::route_msg (mainloop.cpp)
    rt_endpoints,   \* g_endpoints of the routing instance: sequence of
                    \* [fd, events, type, valid, retry, group, members]
    rt_unknown,     \* _errors_aggregate.msg_to_unknown
    rt_hangups,     \* should_process_tcp_hangups
    rt_call,        \* observer: the last route_msg call: inputs and the write_msg calls made
    rt_timeouts,    \* _timeouts of the routing instance, head first: sequence
                    \* of [id, remove_me]
    rt_blocked,     \* observer: the fds of the endpoints whose write_msg returned
                    \* -EAGAIN and whose handle_canwrite has not returned false since
    \* ---- router instances, kernel, threads (mainloop.cpp, main.cpp)
    routers,        \* Mainloop objects by address: 0 is the singleton _instance,
                    \* a > 0 a heap address handed out by create_extension_instance
    fds,            \* the process's descriptor table: fd -> who opened it (0 the
                    \* primary router, t > 0 extension thread t), or FREE
    threads,        \* ThreadManager's threads: id -> [kind, pc, stop, ext, inst]
    nextTid,        \* the id ThreadManager::createThread hands out next
    tm_attach,      \* ThreadManager's attachment ids: attachment -> thread id
    \* ---- ExtensionManager (ExtensionManager.cpp)
    extensions_,    \* name -> ExtensionInfo, or NoExt
    files,          \* <conf_dir>/extension_<name>.json: name -> saved config, or NoFile
    ctl,            \* the controlling caller: idle, inside stopExtension or
                    \* deleteExtension, or holding the value a command returned
    \* ---- RpcController (RpcController.cpp)
    threadRegistry_,    \* thread name -> thread id, 0 when absent
    threadAttachments_, \* thread name -> attachment id, "" when absent
    restartCallbacks_,  \* the names with a restart callback
    resp,           \* the value being returned by the command that just finished
    \* ---- ExtensionManager: the stored configurations and their files
    px_extensions,  \* name -> ExtensionInfo::config in full, or NoConfig
    px_files,       \* <conf_dir>/extension_<name>.json: name -> JSON document, or NoJson
    px_saved,       \* observer: name -> the configuration whose save wrote the
                    \* file that this run of the process found, or NoConfig
    \* ---- the three mutexes and the threads that call through them
    mtx,            \* mutex -> the caller that locked it last and has it locked,
                    \* or 0 when it is unlocked
    lp,             \* caller -> [path, pc, held]: the control path it is on, the
                    \* next instruction, the mutexes it locked and has not unlocked
    \* ---- EndpointStatistics of one endpoint (endpoint_stats.cpp)
    es              \* [pc, owner, enable_json_file_output, path, interval, last,
                    \* now, error_history]: the router thread's position in the
                    \* periodic update, the thread that has error_history_mutex
                    \* locked (0: none), stats_config_, last_json_file_write_,
                    \* the steady clock, the timestamps of the recorded errors

ddVars == <<dd_period, dd_queue, dd_set, dd_now, dd_obs, dd_call, dd_ins>>
rtVars == <<rt_endpoints, rt_unknown, rt_hangups, rt_call, rt_timeouts,
            rt_blocked>>
lcVars == <<routers, fds, threads, nextTid, tm_attach, extensions_, files, ctl,
            threadRegistry_, threadAttachments_, restartCallbacks_, resp>>
pxVars == <<px_extensions, px_files, px_saved>>
lkVars == <<mtx, lp, es>>

(***************************************************************************)
(* Bounds of the model.                                                    *)
(***************************************************************************)
\* DedupImpl::time_t is uint32_t; the model keeps the wrap-around but
\* narrows the word: timestamps live in 0 .. TimeModulus-1.
TimeModulus == 8
MaxPeriod   == 2        \* dedup periods 1 .. MaxPeriod
MaxDelta    == 3        \* the clock advances by at most MaxDelta per Tick
NumPayloads == 2        \* distinct payloads offered to the cache
MaxEndpoints == 3       \* endpoints of the routing instance
MaxUnknown  == 2        \* cap of the msg_to_unknown counter

Min(a, b) == IF a < b THEN a ELSE b

(***************************************************************************)
(* Dedup                                                                   *)
(***************************************************************************)
Payloads == 1 .. NumPayloads
NEW_PACKET_OR_TIMED_OUT  == "NEW_PACKET_OR_TIMED_OUT"
ALREADY_EXISTS_IN_BUFFER == "ALREADY_EXISTS_IN_BUFFER"

\* std::hash<std::string> of the payload bytes; distinct payloads of the
\* model have distinct hashes.
Hash(p) == 100 + 7 * p

\* uint32 addition
AddU32(a, b) == (a + b) % TimeModulus

\* Real elapsed time is observed up to AgeCap (anything longer than every period).
AgeCap == MaxPeriod + 1

\* dedup.cpp:45-53: pop expired entries from the front, erasing their hashes.
RECURSIVE ExpireEntries(_, _, _, _)
ExpireEntries(queue, set, timestamp, period) ==
    IF queue # <<>> /\ timestamp > AddU32(Head(queue)[1], period)
    THEN ExpireEntries(Tail(queue), set \ {Head(queue)[2]}, timestamp, period)
    ELSE [queue |-> queue, set |-> set]

\* dedup.cpp:36-71: DedupImpl::check_packet; returns the new structures and
\* whether the packet is new.
ImplCheckPacket(queue, set, timestamp, p, period) ==
    LET cleaned == ExpireEntries(queue, set, timestamp, period)
        hash == Hash(p)
    IN  IF hash \notin cleaned.set
        THEN [queue |-> Append(cleaned.queue, <<timestamp, hash>>),
              set   |-> cleaned.set \cup {hash},
              new_packet_hash |-> TRUE]
        ELSE [queue |-> cleaned.queue, set |-> cleaned.set,
              new_packet_hash |-> FALSE]

\* Dedup::check_packet without the period-0 short cut
DedupCheckPacketAlways(queue, set, timestamp, p, period) ==
    LET r == ImplCheckPacket(queue, set, timestamp, p, period)
    IN  [queue |-> r.queue, set |-> r.set,
         status |-> IF r.new_packet_hash THEN NEW_PACKET_OR_TIMED_OUT
                    ELSE ALREADY_EXISTS_IN_BUFFER]

\* dedup.cpp:136-162: Dedup::check_packet
DedupCheckPacket(queue, set, timestamp, p, period) ==
    IF period = 0
    THEN [queue |-> queue, set |-> set, status |-> NEW_PACKET_OR_TIMED_OUT]
    ELSE LET r == ImplCheckPacket(queue, set, timestamp, p, period)
         IN  [queue |-> r.queue, set |-> r.set,
              status |-> IF r.new_packet_hash THEN NEW_PACKET_OR_TIMED_OUT
                         ELSE ALREADY_EXISTS_IN_BUFFER]

NoObs == [age |-> -1, res |-> "none"]
NoCall == [p |-> 0, status |-> "none", gap |-> -1, prev |-> "none", period |-> 0,
           ins |-> -1]
\* Real ms since the payload's hash was last inserted (dedup.cpp:63-64), up to
\* AgeCap; -1 while it never was.
NoInsertion == [p \in Payloads |-> -1]


\* dedup.cpp:130-134 (called from mainloop.cpp:749-752 with a period > 0).
\* The observers restart: the claims speak of submissions under one period.
set_dedup_period(period) ==
    /\ dd_period' = period
    /\ dd_obs' = [p \in Payloads |-> NoObs]
    /\ dd_call' = NoCall
    /\ UNCHANGED <<dd_queue, dd_set, dd_now, dd_ins>>

SetDedupPeriod == \E period \in 1 .. MaxPeriod : set_dedup_period(period)

\* The system clock advances between two calls.
Tick ==
    \E d \in 1 .. MaxDelta :
        /\ dd_now' = AddU32(dd_now, d)
        /\ dd_obs' = [p \in Payloads |->
                        IF dd_obs[p].age < 0 THEN dd_obs[p]
                        ELSE [dd_obs[p] EXCEPT !.age = Min(AgeCap, @ + d)]]
        /\ dd_ins' = [p \in Payloads |->
                        IF dd_ins[p] < 0 THEN -1 ELSE Min(AgeCap, dd_ins[p] + d)]
        /\ UNCHANGED <<dd_period, dd_queue, dd_set, dd_call>>

check_packet(p) ==
    LET r == DedupCheckPacket(dd_queue, dd_set, dd_now, p, dd_period)
    IN  /\ dd_queue' = r.queue
        /\ dd_set' = r.set
        /\ dd_call' = [p |-> p, status |-> r.status, gap |-> dd_obs[p].age,
                       prev |-> dd_obs[p].res, period |-> dd_period,
                       ins |-> dd_ins[p]]
        /\ dd_obs' = [dd_obs EXCEPT ![p] = [age |-> 0, res |-> r.status]]
        /\ dd_ins' = IF Hash(p) \in r.set /\ r.status = NEW_PACKET_OR_TIMED_OUT
                     THEN [dd_ins EXCEPT ![p] = 0] ELSE dd_ins
        /\ UNCHANGED <<dd_period, dd_now>>

CheckPacket == \E p \in Payloads : check_packet(p)

(***************************************************************************)
(* Mainloop::route_msg                                                     *)
(***************************************************************************)
AcceptStates == {"Accepted", "Filtered", "Rejected"}
\* Endpoint::write_msg results seen by Mainloop::write_msg: bytes written (0
\* stands for any count >= 0), -EAGAIN, -EPIPE
WriteResults == {"OK", "EAGAIN", "EPIPE"}
EPOLLIN == {"IN"}
EPOLLIN_OUT == {"IN", "OUT"}

\* a write_msg that asks for EPOLLOUT after a broken pipe as well
WriteMsgEventsOnBrokenPipe(events, r) ==
    IF r \in {"EAGAIN", "EPIPE"} THEN EPOLLIN_OUT ELSE events

\* mainloop.cpp:340-353 Mainloop::write_msg: the endpoint's new epoll interest
WriteMsgEvents(events, r) == IF r = "EAGAIN" THEN EPOLLIN_OUT ELSE events

\* A loop that hands the frame to Filtered endpoints as well: what the loop
\* of route_msg is told apart from
RECURSIVE RouteLoopWritingFiltered(_, _, _, _)
RouteLoopWritingFiltered(i, acc, wr, st) ==
    IF i > Len(st.eps) THEN st
    ELSE IF acc[i] \in {"Accepted", "Filtered"}
         THEN RouteLoopWritingFiltered(i + 1, acc, wr,
                [eps |-> [st.eps EXCEPT ![i].events = WriteMsgEvents(@, wr[i])],
                 consulted |-> Append(st.consulted, i),
                 writes |-> Append(st.writes, i),
                 unknown |-> FALSE,
                 hangups |-> st.hangups \/ wr[i] = "EPIPE"])
         ELSE RouteLoopWritingFiltered(i + 1, acc, wr,
                [st EXCEPT !.consulted = Append(@, i)])

\* mainloop.cpp:359-391: the loop over g_endpoints, from index i on.  acc[i]
\* is what e->accept_msg(buf) returns, wr[i] what e->write_msg(buf) returns
\* if it is called.  st = [eps, consulted, writes, unknown, hangups];
\* consulted and writes list the endpoints accept_msg and write_msg were
\* called on, in call order.
RECURSIVE RouteLoop(_, _, _, _)
RouteLoop(i, acc, wr, st) ==
    IF i > Len(st.eps) THEN st
    ELSE IF acc[i] = "Accepted"
         THEN RouteLoop(i + 1, acc, wr,
                [eps |-> [st.eps EXCEPT ![i].events = WriteMsgEvents(@, wr[i])],
                 consulted |-> Append(st.consulted, i),
                 writes |-> Append(st.writes, i),
                 unknown |-> FALSE,
                 hangups |-> st.hangups \/ wr[i] = "EPIPE"])
         ELSE IF acc[i] = "Filtered"
         THEN RouteLoop(i + 1, acc, wr,
                [st EXCEPT !.consulted = Append(@, i), !.unknown = FALSE])
         ELSE RouteLoop(i + 1, acc, wr, [st EXCEPT !.consulted = Append(@, i)])

NoRoute == [acc |-> <<>>, consulted |-> <<>>, writes |-> <<>>]

ENDPOINT_TYPE_UART == "UART"
ENDPOINT_TYPE_UDP == "UDP"
ENDPOINT_TYPE_TCP == "TCP"
\* the group names of the configuration; "" is no group
Groups == {"", "A", "B"}

\* One entry of config.uart_configs, udp_configs or tcp_configs: retry is
\* retry_timeout > 0, which only a TCP entry has
EndpointConfs ==
    {[type |-> ty, group |-> g, retry |-> r] :
        ty \in {ENDPOINT_TYPE_UART, ENDPOINT_TYPE_UDP, ENDPOINT_TYPE_TCP},
        g \in Groups, r \in BOOLEAN}
TcpClient == [type |-> ENDPOINT_TYPE_TCP, group |-> "", retry |-> TRUE]

\* mainloop.cpp:633, 657, 682: the endpoint made from one entry
NewEndpoint(fd, conf) ==
    [fd |-> fd, events |-> EPOLLIN, type |-> conf.type, valid |-> TRUE,
     retry |-> conf.retry, group |-> conf.group, members |-> {}]

\* mainloop.cpp:641-645, 665-669, 690: add_endpoints appends an endpoint
\* registered for EPOLLIN
RtAddEndpoint ==
    /\ Len(rt_endpoints) < MaxEndpoints
    /\ rt_endpoints' = Append(rt_endpoints,
                              NewEndpoint(Len(rt_endpoints) + 1, TcpClient))
    /\ UNCHANGED <<rt_unknown, rt_hangups, rt_call, rt_timeouts, rt_blocked>>

\* mainloop.cpp:630-696: the three loops run over the UART, then the UDP,
\* then the TCP entries
TypeRank(ty) ==
    IF ty = ENDPOINT_TYPE_UART THEN 1 ELSE IF ty = ENDPOINT_TYPE_UDP THEN 2 ELSE 3
Configurations ==
    {c \in UNION {[1 .. n -> EndpointConfs] : n \in 1 .. MaxEndpoints} :
        /\ \A i \in DOMAIN c : c[i].retry => c[i].type = ENDPOINT_TYPE_TCP
        /\ \A i, j \in DOMAIN c : i < j => TypeRank(c[i].type) <= TypeRank(c[j].type)}

\* mainloop.cpp:698-709: every endpoint with a group name is linked to the
\* others for which the test of line 705 holds
LinkGroups(eps) ==
    [i \in DOMAIN eps |->
        IF eps[i].group = "" THEN eps[i]
        ELSE [eps[i] EXCEPT !.members =
                {eps[o].fd : o \in {o \in DOMAIN eps :
                                      o # i /\ eps[i].group = eps[i].group}}]]

\* mainloop.cpp:601-709 Mainloop::add_endpoints, every setup succeeding
add_endpoints_linked(config) ==
    LinkGroups([i \in DOMAIN config |-> NewEndpoint(i, config[i])])

RtAddEndpoints ==
    /\ rt_endpoints = <<>>
    /\ \E config \in Configurations :
           rt_endpoints' = add_endpoints_linked(config)
    /\ UNCHANGED <<rt_unknown, rt_hangups, rt_call, rt_timeouts, rt_blocked>>

\* mainloop.cpp:497-502: handle_read fails and leaves the endpoint invalid
RtReadError ==
    \E i \in DOMAIN rt_endpoints :
        /\ rt_endpoints[i].valid
        /\ rt_endpoints' = [rt_endpoints EXCEPT ![i].valid = FALSE]
        /\ rt_hangups' = TRUE
        /\ UNCHANGED <<rt_unknown, rt_call, rt_timeouts, rt_blocked>>

\* a sweep that drops every invalid endpoint, whatever its type and policy
process_tcp_hangups_all_invalid(eps) == SelectSeq(eps, LAMBDA e : e.valid)

\* mainloop.cpp:405-425: the iterator walk; erase(it) leaves it on the next
\* element
RECURSIVE ProcessTcpHangupsFrom(_, _)
ProcessTcpHangupsFrom(it, eps) ==
    IF it > Len(eps) THEN eps
    ELSE IF /\ ~eps[it].valid
            /\ eps[it].type = ENDPOINT_TYPE_TCP
            /\ ~eps[it].retry
         THEN ProcessTcpHangupsFrom(it, SubSeq(eps, 1, it - 1)
                                         \o SubSeq(eps, it + 1, Len(eps)))
         ELSE ProcessTcpHangupsFrom(it + 1, eps)

\* mainloop.cpp:402-428 Mainloop::process_tcp_hangups: the list it leaves
process_tcp_hangups(eps) == ProcessTcpHangupsFrom(1, eps)

\* mainloop.cpp:355-400 Mainloop::route_msg
route_msg(acc, wr) ==
    LET st == RouteLoop(1, acc, wr, [eps |-> rt_endpoints, consulted |-> <<>>,
                                     writes |-> <<>>, unknown |-> TRUE,
                                     hangups |-> rt_hangups])
    IN  /\ rt_endpoints' = st.eps
        /\ rt_hangups' = st.hangups
        /\ rt_unknown' = IF st.unknown THEN Min(MaxUnknown, rt_unknown + 1)
                         ELSE rt_unknown
        /\ rt_call' = [acc |-> acc, consulted |-> st.consulted, writes |-> st.writes]
        /\ rt_timeouts' = rt_timeouts
        /\ rt_blocked' = rt_blocked \cup {rt_endpoints[i].fd : i \in
                             {i \in DOMAIN rt_endpoints :
                                 acc[i] = "Accepted" /\ wr[i] = "EAGAIN"}}

\* a frame arrives: every endpoint has its answer to accept_msg, and the
\* endpoints that will be written to have the result of the write
RouteMsg ==
    \E acc \in [1 .. Len(rt_endpoints) -> AcceptStates],
       wr \in [1 .. Len(rt_endpoints) -> WriteResults] :
        /\ \A i \in 1 .. Len(rt_endpoints) : acc[i] # "Accepted" => wr[i] = "OK"
        /\ route_msg(acc, wr)

\* mainloop.cpp:505-509: an EPOLLOUT event of endpoint i, reported because
\* its interest holds EPOLLOUT; more is what handle_canwrite returns, true
\* when bytes remain in the queue
CanWriteEvents(events, more) == IF more THEN events ELSE EPOLLIN
RtCanWrite ==
    \E i \in DOMAIN rt_endpoints, more \in BOOLEAN :
        /\ "OUT" \in rt_endpoints[i].events
        /\ rt_endpoints' = [rt_endpoints EXCEPT
                               ![i].events = CanWriteEvents(@, more)]
        /\ rt_blocked' = IF more THEN rt_blocked
                         ELSE rt_blocked \ {rt_endpoints[i].fd}
        /\ UNCHANGED <<rt_unknown, rt_hangups, rt_call, rt_timeouts>>

MaxTimeouts == 4
TimeoutIds == 1 .. MaxTimeouts

\* mainloop.cpp:876-906 Mainloop::add_timeout: the new Timeout becomes the
\* head of the list
RtAddTimeout ==
    /\ Len(rt_timeouts) < MaxTimeouts
    /\ LET t == CHOOSE id \in TimeoutIds :
                   \A i \in DOMAIN rt_timeouts : rt_timeouts[i].id # id
       IN  rt_timeouts' = <<[id |-> t, remove_me |-> FALSE]>> \o rt_timeouts
    /\ UNCHANGED <<rt_endpoints, rt_unknown, rt_hangups, rt_call, rt_blocked>>

\* mainloop.cpp:907-910 Mainloop::del_timeout, called by a handler during
\* the dispatch of an iteration
RtDelTimeout ==
    \E i \in DOMAIN rt_timeouts :
        /\ ~rt_timeouts[i].remove_me
        /\ rt_timeouts' = [rt_timeouts EXCEPT ![i].remove_me = TRUE]
        /\ UNCHANGED <<rt_endpoints, rt_unknown, rt_hangups, rt_call, rt_blocked>>

\* mainloop.cpp:926-933: the flagged Timeouts at the head are removed
RECURSIVE DelTimeoutsHead(_)
DelTimeoutsHead(ts) ==
    IF ts # <<>> /\ ts[1].remove_me THEN DelTimeoutsHead(Tail(ts)) ELSE ts

\* mainloop.cpp:936-951: the walk behind a kept Timeout at position prev;
\* current is prev + 1
RECURSIVE DelTimeoutsFrom(_, _)
DelTimeoutsFrom(prev, ts) ==
    IF prev + 1 > Len(ts) THEN ts
    ELSE IF ts[prev + 1].remove_me
         THEN DelTimeoutsFrom(prev, SubSeq(ts, 1, prev)
                                      \o SubSeq(ts, prev + 2, Len(ts)))
         ELSE DelTimeoutsFrom(prev + 1, ts)

\* a walk that steps over the element after each one it removes
RECURSIVE DelTimeoutsSkipping(_, _)
DelTimeoutsSkipping(prev, ts) ==
    IF prev + 1 > Len(ts) THEN ts
    ELSE IF ts[prev + 1].remove_me
         THEN DelTimeoutsSkipping(prev + 1, SubSeq(ts, 1, prev)
                                             \o SubSeq(ts, prev + 2, Len(ts)))
         ELSE DelTimeoutsSkipping(prev + 1, ts)
del_timeouts_skipping(ts) ==
    LET kept == DelTimeoutsHead(ts)
    IN  IF kept # <<>> THEN DelTimeoutsSkipping(1, kept) ELSE kept

\* mainloop.cpp:924-952 Mainloop::_del_timeouts: the list it leaves
del_timeouts(ts) ==
    LET kept == DelTimeoutsHead(ts)
    IN  IF kept # <<>> THEN DelTimeoutsFrom(1, kept) ELSE kept

\* mainloop.cpp:533-537: the end of a loop iteration, after the dispatch of
\* its events: the hangup sweep if it was asked for (it clears the flag,
\* 427), then _del_timeouts; the next ready-wait follows
RtLoopIteration ==
    /\ rt_hangups' = FALSE
    /\ rt_endpoints' = IF rt_hangups THEN process_tcp_hangups(rt_endpoints)
                                     ELSE rt_endpoints
    /\ rt_timeouts' = del_timeouts(rt_timeouts)
    /\ rt_blocked' = {fd \in rt_blocked :
                          \E i \in DOMAIN rt_endpoints' : rt_endpoints'[i].fd = fd}
    /\ UNCHANGED <<rt_unknown, rt_call>>

(***************************************************************************)
(* Router instances and the descriptor table                               *)
(***************************************************************************)
MaxThreads == 3         \* thread ids 1 .. MaxThreads are handed out, then no more
MaxFd      == 12        \* descriptors 1 .. MaxFd; a full table makes opens fail
MaxAccepted == 1        \* TCP connections one router accepts

Tids == 1 .. MaxThreads
MAIN == 0                       \* mainloop.cpp:35  Mainloop Mainloop::_instance
Heap == 1 .. MaxThreads         \* addresses of heap-allocated Mainloop objects
InstIds == {MAIN} \cup Heap
NULL == -1                      \* nullptr
FREE == -1                      \* a closed descriptor
Fds == 1 .. MaxFd
EXIT_FAILURE == 1

\* mainloop.cpp:70-96 create_extension_instance; mainloop.h:76-156 defaults
NewRouter ==
    [live |-> TRUE, should_exit |-> FALSE, retcode |-> -1, epollfd |-> -1,
     g_endpoints |-> <<>>, g_tcp_fd |-> -1, timeouts |-> <<>>, tracked |-> {},
     accepted |-> 0]
\* a deleted (or not yet created) extension instance
NoRouter == [NewRouter EXCEPT !.live = FALSE]

\* open(2)/socket(2)/epoll_create1/timerfd_create/accept: the lowest free
\* descriptor, -1 (EMFILE) when the table is full
LowestFree(k) ==
    IF \E fd \in Fds : k[fd] = FREE
    THEN CHOOSE fd \in Fds : k[fd] = FREE /\ \A g \in Fds : k[g] = FREE => fd <= g
    ELSE -1

\* close(fd): by number, whoever opened it
Close(k, fd) == IF fd \in Fds THEN [k EXCEPT ![fd] = FREE] ELSE k

RECURSIVE CloseAll(_, _)
CloseAll(k, fdseq) ==
    IF fdseq = <<>> THEN k ELSE CloseAll(Close(k, Head(fdseq)), Tail(fdseq))

SeqToSet(q) == {q[i] : i \in 1 .. Len(q)}

\* mainloop.cpp:776-783 / 785-797
track_fd(r, fd) == [r EXCEPT !.tracked = @ \cup {fd}]
untrack_fd(r, fd) == [r EXCEPT !.tracked = @ \ {fd}]

\* An exit flag that is one per process: every instance is told to exit
request_exit_everywhere(rs, i, retcode) ==
    [j \in DOMAIN rs |-> [rs[j] EXCEPT !.retcode = retcode, !.should_exit = TRUE]]

\* A request that reaches no instance
request_exit_nowhere(rs, i, retcode) == rs

\* mainloop.cpp:262-276 Mainloop::request_exit, on instance i
request_exit(rs, i, retcode) ==
    [rs EXCEPT ![i].retcode = retcode, ![i].should_exit = TRUE]

\* mainloop.cpp:278-298 Mainloop::open, by instance i.  w = [r, k, ok]
open(r, k, i) ==
    IF r.epollfd # -1 THEN [r |-> [r EXCEPT !.retcode = -1], k |-> k, ok |-> FALSE]
    ELSE LET fd == LowestFree(k)
         IN  IF fd = -1
             THEN [r |-> [r EXCEPT !.retcode = -1], k |-> k, ok |-> FALSE]
             ELSE [r |-> track_fd([r EXCEPT !.retcode = 0, !.epollfd = fd], fd),
                   k |-> [k EXCEPT ![fd] = i], ok |-> TRUE]

\* mainloop.cpp:838-874 tcp_open: the listening socket, -1 on failure
tcp_open(r, k, i) ==
    LET fd == LowestFree(k)
    IN  IF fd = -1 THEN [r |-> r, k |-> k]
        ELSE [r |-> track_fd([r EXCEPT !.g_tcp_fd = fd], fd),
              k |-> [k EXCEPT ![fd] = i]]

\* mainloop.cpp:601-769 add_endpoints: n configured endpoints, each opened,
\* appended, added to epoll and tracked; the failAt-th setup fails (0: none
\* fails), and so does a setup that gets no descriptor; then tcp_open
\* (712-714; conf.tcp_port # 0 in every configuration of the model).
RECURSIVE AddEndpointsFrom(_, _, _, _, _, _)
AddEndpointsFrom(j, n, failAt, r, k, i) ==
    IF j > n
    THEN LET t == tcp_open(r, k, i) IN [r |-> t.r, k |-> t.k, ok |-> TRUE]
    ELSE LET fd == LowestFree(k)
         IN  IF j = failAt \/ fd = -1 THEN [r |-> r, k |-> k, ok |-> FALSE]
             ELSE AddEndpointsFrom(j + 1, n, failAt,
                     track_fd([r EXCEPT !.g_endpoints = Append(@, fd)], fd),
                     [k EXCEPT ![fd] = i], i)

add_endpoints(r, k, i, n, failAt) == AddEndpointsFrom(1, n, failAt, r, k, i)

\* mainloop.cpp:876-905 add_timeout: a timerfd, added to epoll and tracked
add_timeout(r, k, i) ==
    LET fd == LowestFree(k)
    IN  IF fd = -1 THEN [r |-> r, k |-> k]
        ELSE [r |-> track_fd([r EXCEPT !.timeouts = Append(@, fd)], fd),
              k |-> [k EXCEPT ![fd] = i]]

\* mainloop.cpp:451-463: loop() up to its while: -EINVAL without an epoll
\* descriptor, else the log-aggregate timeout is added
LoopEntry(r, k, i) ==
    IF r.epollfd < 0 THEN [r |-> r, k |-> k, ok |-> FALSE]
    ELSE LET t == add_timeout(r, k, i) IN [r |-> t.r, k |-> t.k, ok |-> TRUE]

\* Destroying endpoints and timeouts (spec.md 4.1: "clear endpoints (which
\* invokes their destructors -- closing their handles)"): each object
\* closes the descriptor number it holds
DestroyPollables(k, fdseq) == CloseAll(k, fdseq)

\* mainloop.cpp:540-554: after the while: clear_endpoints() and the timeouts
\* are deleted; nothing is untracked
LoopExitPath(r, k) ==
    [r |-> [r EXCEPT !.g_endpoints = <<>>, !.timeouts = <<>>],
     k |-> DestroyPollables(DestroyPollables(k, r.g_endpoints), r.timeouts)]

\* A teardown that leaves the endpoints' sockets to their destructors
teardownWithoutEndpointClose(r, k) ==
    [r |-> [r EXCEPT !.should_exit = FALSE,
                     !.g_endpoints = <<>>,
                     !.tracked = (@ \ ({r.g_tcp_fd, r.epollfd} \cup SeqToSet(r.timeouts))),
                     !.g_tcp_fd = -1,
                     !.timeouts = <<>>,
                     !.epollfd = -1,
                     !.retcode = -1,
                     !.accepted = 0],
     k |-> Close(Close(CloseAll(k, r.timeouts), r.g_tcp_fd), r.epollfd)]

\* A teardown that leaves the exit flag as it finds it
teardownKeepingExitFlag(r, k) ==
    [r |-> [r EXCEPT !.g_endpoints = <<>>,
                     !.tracked = (@ \ ({r.g_tcp_fd, r.epollfd} \cup SeqToSet(r.timeouts))),
                     !.g_tcp_fd = -1,
                     !.timeouts = <<>>,
                     !.epollfd = -1,
                     !.retcode = -1,
                     !.accepted = 0],
     k |-> Close(Close(CloseAll(CloseAll(k, r.g_endpoints), r.timeouts),
                       r.g_tcp_fd), r.epollfd)]

\* mainloop.cpp:177-244 Mainloop::teardown, on the singleton
teardown(r, k) ==
    [r |-> [r EXCEPT !.should_exit = FALSE,
                     !.g_endpoints = <<>>,
                     !.tracked = (@ \ ({r.g_tcp_fd, r.epollfd} \cup SeqToSet(r.timeouts))),
                     !.g_tcp_fd = -1,
                     !.timeouts = <<>>,
                     !.epollfd = -1,
                     !.retcode = -1,
                     !.accepted = 0],
     k |-> Close(Close(CloseAll(CloseAll(k, r.g_endpoints), r.timeouts),
                       r.g_tcp_fd), r.epollfd)]

\* mainloop.cpp:799-836 force_close_all_tracked_fds: every tracked number
\* that fcntl(F_GETFD) finds open is closed; the map is cleared
force_close_all_tracked_fds(r, k) ==
    [r |-> [r EXCEPT !.tracked = {}],
     k |-> [fd \in Fds |-> IF fd \in r.tracked THEN FREE ELSE k[fd]]]

\* mainloop.cpp:98-175 destroy_extension_instance
destroy_extension_instance(r, k) ==
    LET own == SeqToSet(r.g_endpoints) \cup SeqToSet(r.timeouts)
                   \cup {r.g_tcp_fd, r.epollfd}
        k1 == Close(Close(CloseAll(CloseAll(k, r.g_endpoints), r.timeouts),
                          r.g_tcp_fd), r.epollfd)
        f  == force_close_all_tracked_fds([r EXCEPT !.tracked = @ \ own], k1)
    IN  [r |-> NoRouter, k |-> f.k]

\* mainloop.cpp:430-449 handle_tcp_connection: the accepted socket becomes an
\* endpoint and joins epoll; it is not tracked
handle_tcp_connection(r, k, i) ==
    LET fd == LowestFree(k)
    IN  IF fd = -1 THEN [r |-> r, k |-> k]
        ELSE [r |-> [r EXCEPT !.g_endpoints = Append(@, fd), !.accepted = @ + 1],
              k |-> [k EXCEPT ![fd] = i]]

(***************************************************************************)
(* ThreadManager (spec.md 4.5) and the thread bodies                       *)
(***************************************************************************)
NoThread == [kind |-> "none", pc |-> "done", stop |-> FALSE, ext |-> "", inst |-> NULL]

\* create_thread(work): a new thread about to run its body
createThread(ths, tid, kind, ext) ==
    IF tid \notin Tids THEN ths ELSE
    [ths EXCEPT ![tid] = [kind |-> kind, pc |-> "start", stop |-> FALSE, ext |-> ext,
                          inst |-> IF kind = "main" THEN MAIN ELSE NULL]]

\* A thread manager that reports every thread as ended
isThreadAliveNever(ths, tid) == FALSE

\* is_alive(id)
isThreadAlive(ths, tid) ==
    tid \in Tids /\ ths[tid].kind # "none" /\ ths[tid].pc # "done"

\* stop_thread(id): sets the per-thread stop flag, nothing else
stopThread(ths, tid) ==
    IF tid \in Tids /\ ths[tid].kind # "none"
    THEN [ths EXCEPT ![tid].stop = TRUE] ELSE ths

\* join_thread(id, timeout) returns true
Joined(ths, tid) == ~isThreadAlive(ths, tid)

\* attachment ids: "http_server", "mainloop", "extension_" + name
Attachment(prefix, name) == <<prefix, name>>
NoAttachment == <<"", "">>

ThreadNames == {"http_server", "mainloop", "statistics"}
ExtNames == {"x", "y"}
Attachments == {Attachment("", n) : n \in ThreadNames}
                   \cup {Attachment("extension_", n) : n \in ExtNames}

\* the global configuration's endpoints, by the pattern their name contains
udp_configs == << [prefix |-> "internal-router-point", n |-> 1],
                  [prefix |-> "udp-extension-point", n |-> 1],
                  [prefix |-> "udp-extension-point", n |-> 2] >>
tcp_configs == << [prefix |-> "tcp-extension-point", n |-> 1] >>
NoPoint == [prefix |-> "", n |-> 0]         \* the empty string
MainEndpoints == Len(udp_configs) + Len(tcp_configs)
\* ExtensionManager.cpp:311,322 / 346,360 / 370,383: the extension point
\* and the extension itself
ExtEndpoints == 2

NoExt == [present |-> FALSE, type |-> "", point |-> NoPoint, threadId |-> 0,
          isRunning |-> FALSE, mainloopInstance |-> NULL]
NoFile == [present |-> FALSE, type |-> "", point |-> NoPoint]
Idle == [pc |-> "idle", name |-> "", deleting |-> FALSE, retries |-> 0]
Returning == [Idle EXCEPT !.pc = "return"]
\* what a command hands back: its result and, from the controller, the
\* RpcResponse::threadStates snapshots
Result(op, target, status) ==
    [op |-> op, target |-> target, status |-> status, threadStates |-> {}]
NoResp == Result("", "", "")

\* extensionsMutex_ is free: no stopExtension/deleteExtension holds it
\* (ExtensionManager.cpp:440-442, 549-551 release it while sleeping)
MutexFree == ctl.pc \in {"idle", "poll"}

\* A command's return to its caller is one more step (Return); the worker
\* threads take their next steps before the command or after the return.
Scheduled == ctl.pc # "return"

\* mainloop.cpp:246-255 Mainloop::instance() on thread t: the thread-local
\* instance of an extension thread, else the singleton
InstOf(t) == threads[t].inst

\* who opens the descriptors of thread t's router
OwnerOf(t) == IF threads[t].kind = "main" THEN MAIN ELSE t

\* operator new: an address not in use.  A freed address that a record
\* still points to may be handed out again; otherwise the lowest free one.
Dangling == {extensions_[n].mainloopInstance : n \in ExtNames} \ {NULL}
NewAddresses ==
    LET free == {a \in Heap : ~routers[a].live}
        clean == free \ Dangling
    IN  (free \cap Dangling)
            \cup {a \in clean : \A b \in clean : a <= b}

\* Which endpoint setup fails in a run of add_endpoints over n endpoints:
\* none (0), or the last one, after the others were opened
FailPoints(n) == {0, n}

\* open(), add_endpoints(conf) and the entry of loop(), on router r of
\* instance i: [r, k, ok]
Setup(r, k, i, n, failAt) ==
    LET o == open(r, k, i)
    IN  IF ~o.ok THEN o
        ELSE LET a == add_endpoints(o.r, o.k, i, n, failAt)
             IN  IF ~a.ok THEN a ELSE LoopEntry(a.r, a.k, i)

\* ExtensionManager.cpp:147-199: the extension thread creates its instance,
\* publishes the pointer in its record under extensionsMutex_, then open,
\* add_endpoints, into loop(); a failure throws to the cleanup at 208-233
ExtThreadStart(t) ==
    /\ threads[t].kind = "ext" /\ threads[t].pc = "start"
    /\ MutexFree
    /\ \E a \in NewAddresses, failAt \in FailPoints(ExtEndpoints) :
         LET w == Setup(NewRouter, fds, t, ExtEndpoints, failAt)
         IN  /\ routers' = [routers EXCEPT ![a] = w.r]
             /\ fds' = w.k
             /\ extensions_' =
                    IF extensions_[threads[t].ext].present
                    THEN [extensions_ EXCEPT ![threads[t].ext].mainloopInstance = a]
                    ELSE extensions_
             /\ threads' = [threads EXCEPT ![t].inst = a,
                                ![t].pc = IF w.ok THEN "loop" ELSE "cleanup"]
    /\ UNCHANGED <<nextTid, tm_attach, files, ctl, threadRegistry_,
                   threadAttachments_, restartCallbacks_, resp>>

\* ExtensionManager.cpp:208-233: set_thread_instance(nullptr) and
\* destroy_extension_instance; the thread ends
ExtThreadDestroy(t) ==
    /\ Scheduled
    /\ threads[t].kind = "ext" /\ threads[t].pc = "cleanup"
    /\ LET w == destroy_extension_instance(routers[InstOf(t)], fds)
       IN  /\ routers' = [routers EXCEPT ![InstOf(t)] = w.r]
           /\ fds' = w.k
    /\ threads' = [threads EXCEPT ![t].pc = "done", ![t].inst = NULL]
    /\ UNCHANGED <<nextTid, tm_attach, extensions_, files, ctl, threadRegistry_,
                   threadAttachments_, restartCallbacks_, resp>>

\* main.cpp:1119-1154: the primary router's thread: teardown, init, open,
\* add_endpoints, into loop(); a failure tears down and returns
MainThreadSetup(t) ==
    /\ Scheduled
    /\ threads[t].kind = "main" /\ threads[t].pc = "start"
    /\ \E failAt \in FailPoints(MainEndpoints) :
         LET c == teardown(routers[MAIN], fds)
             w == Setup(c.r, c.k, MAIN, MainEndpoints, failAt)
             e == teardown(w.r, w.k)
         IN  /\ routers' = [routers EXCEPT ![MAIN] = IF w.ok THEN w.r ELSE e.r]
             /\ fds' = IF w.ok THEN w.k ELSE e.k
             /\ threads' = [threads EXCEPT ![t].pc = IF w.ok THEN "loop" ELSE "done"]
    /\ UNCHANGED <<nextTid, tm_attach, extensions_, files, ctl, threadRegistry_,
                   threadAttachments_, restartCallbacks_, resp>>

\* main.cpp:1158: teardown after loop() returned; the thread ends
MainThreadTeardown(t) ==
    /\ Scheduled
    /\ threads[t].kind = "main" /\ threads[t].pc = "exited"
    /\ LET w == teardown(routers[MAIN], fds)
       IN  /\ routers' = [routers EXCEPT ![MAIN] = w.r]
           /\ fds' = w.k
    /\ threads' = [threads EXCEPT ![t].pc = "done"]
    /\ UNCHANGED <<nextTid, tm_attach, extensions_, files, ctl, threadRegistry_,
                   threadAttachments_, restartCallbacks_, resp>>

\* mainloop.cpp:466-473, 540-554: the while condition sees the exit flag;
\* loop() runs its exit path and returns
LoopExit(t) ==
    /\ Scheduled
    /\ threads[t].kind \in {"main", "ext"} /\ threads[t].pc = "loop"
    /\ routers[InstOf(t)].should_exit
    /\ LET w == LoopExitPath(routers[InstOf(t)], fds)
       IN  /\ routers' = [routers EXCEPT ![InstOf(t)] = w.r]
           /\ fds' = w.k
    /\ threads' = [threads EXCEPT ![t].pc =
                       IF threads[t].kind = "main" THEN "exited" ELSE "cleanup"]
    /\ UNCHANGED <<nextTid, tm_attach, extensions_, files, ctl, threadRegistry_,
                   threadAttachments_, restartCallbacks_, resp>>

\* mainloop.cpp:479-493: an iteration whose epoll_wait reports the listening
\* socket: handle_tcp_connection
LoopAccept(t) ==
    /\ Scheduled
    /\ threads[t].kind \in {"main", "ext"} /\ threads[t].pc = "loop"
    /\ ~routers[InstOf(t)].should_exit
    /\ routers[InstOf(t)].g_tcp_fd \in Fds
    /\ fds[routers[InstOf(t)].g_tcp_fd] = OwnerOf(t)
    /\ routers[InstOf(t)].accepted < MaxAccepted
    /\ LET w == handle_tcp_connection(routers[InstOf(t)], fds, OwnerOf(t))
       IN  /\ routers' = [routers EXCEPT ![InstOf(t)] = w.r]
           /\ fds' = w.k
    /\ UNCHANGED <<threads, nextTid, tm_attach, extensions_, files, ctl,
                   threadRegistry_, threadAttachments_, restartCallbacks_, resp>>

\* mainloop.cpp:511-516: EPOLLERR on a critical descriptor
LoopCriticalError(t) ==
    /\ Scheduled
    /\ threads[t].kind \in {"main", "ext"} /\ threads[t].pc = "loop"
    /\ ~routers[InstOf(t)].should_exit
    /\ routers' = request_exit(routers, InstOf(t), EXIT_FAILURE)
    /\ UNCHANGED <<fds, threads, nextTid, tm_attach, extensions_, files, ctl,
                   threadRegistry_, threadAttachments_, restartCallbacks_, resp>>

(***************************************************************************)
(* ExtensionManager                                                        *)
(***************************************************************************)
ExtTypes == {"INTERNAL", "TCP", "UDP"}
\* ExtensionManager.cpp:433, 542: maxRetries is 20 in the code; the model
\* keeps the loop and narrows the count
maxRetries == 2

\* An arbitration that takes no point for used
UsedPointsIgnored(exts) == {}

\* ExtensionManager.cpp:78-85: the points of every record, running or not
UsedPoints(exts) ==
    {exts[n].point : n \in {m \in ExtNames : exts[m].present /\ exts[m].point # NoPoint}}

\* The last entry of configs whose name contains pattern and is not used
LastAvailable(configs, pattern, used) ==
    LET free == {i \in DOMAIN configs :
                    configs[i].prefix = pattern /\ configs[i] \notin used}
    IN  IF free = {} THEN NoPoint
        ELSE configs[CHOOSE i \in free : \A j \in free : j <= i]

\* the first entry of configs whose name contains pattern and is not used
RECURSIVE FirstAvailable(_, _, _)
FirstAvailable(configs, pattern, used) ==
    IF configs = <<>> THEN NoPoint
    ELSE IF Head(configs).prefix = pattern /\ Head(configs) \notin used
         THEN Head(configs)
         ELSE FirstAvailable(Tail(configs), pattern, used)

\* An assignment that hands out the first point of the pool, taken or not
assignFirstOfPool(exts, type) ==
    IF type = "INTERNAL" THEN FirstAvailable(udp_configs, "internal-router-point", {})
    ELSE IF type = "TCP" THEN FirstAvailable(tcp_configs, "tcp-extension-point", {})
    ELSE FirstAvailable(udp_configs, "udp-extension-point", {})

\* ExtensionManager.cpp:76-139
assignAvailableExtensionPoint(exts, type) ==
    IF type = "INTERNAL"
    THEN FirstAvailable(udp_configs, "internal-router-point", UsedPoints(exts))
    ELSE IF type = "TCP"
    THEN FirstAvailable(tcp_configs, "tcp-extension-point", UsedPoints(exts))
    ELSE FirstAvailable(udp_configs, "udp-extension-point", UsedPoints(exts))

\* A launch that creates no thread
launchNoThread(m, name) == m

\* ExtensionManager.cpp:238-244 launchExtensionThread: createThread and
\* registerThread(threadId, "extension_" + name).  m = [exts, files, ths, tm, nt]
launchExtensionThread(m, name) ==
    [m EXCEPT !.ths = createThread(m.ths, m.nt, "ext", name),
              !.tm = [m.tm EXCEPT ![Attachment("extension_", name)] = m.nt],
              !.nt = m.nt + 1]

\* ExtensionManager.cpp:711-782 saveExtensionConfig
saveExtensionConfig(m, name) ==
    [m EXCEPT !.files = [m.files EXCEPT ![name] =
        [present |-> TRUE, type |-> m.exts[name].type, point |-> m.exts[name].point]]]

\* what a client may put in assigned_extension_point: nothing, or a name
SuppliedPoints ==
    {NoPoint} \cup {udp_configs[i] : i \in DOMAIN udp_configs}
              \cup {tcp_configs[i] : i \in DOMAIN tcp_configs}

\* ExtensionManager.cpp:247-409 createExtension: [m, status].  supplied is
\* config.assigned_extension_point: it is logged (260-265) and overwritten
\* with the auto-assigned point (268)
createExtension(m, name, type, supplied) ==
    IF m.exts[name].present
    THEN [m |-> m, status |-> "Extension already exists"]
    ELSE LET point == assignAvailableExtensionPoint(m.exts, type)
         IN  IF point = NoPoint
             THEN [m |-> m, status |-> "No available extension points"]
             ELSE LET l == launchExtensionThread(m, name)
                      info == [present |-> TRUE, type |-> type, point |-> point,
                               threadId |-> m.nt, isRunning |-> TRUE,
                               mainloopInstance |-> NULL]
                  IN  [m |-> saveExtensionConfig(
                                [l EXCEPT !.exts = [l.exts EXCEPT ![name] = info]], name),
                       status |-> "Success"]

Manager == [exts |-> extensions_, files |-> files, ths |-> threads,
            tm |-> tm_attach, nt |-> nextTid]

\* the manager's variables take the values of m; thread ids stay in range
SetManager(m) ==
    /\ m.nt <= MaxThreads + 1
    /\ extensions_' = m.exts
    /\ files' = m.files
    /\ threads' = m.ths
    /\ tm_attach' = m.tm
    /\ nextTid' = m.nt

CreateExtension(name, type, supplied) ==
    /\ ctl.pc = "idle"
    /\ LET c == createExtension(Manager, name, type, supplied)
       IN  /\ SetManager(c.m)
           /\ resp' = Result("create", name, c.status)
    /\ ctl' = Returning
    /\ UNCHANGED <<routers, fds, threadRegistry_, threadAttachments_,
                   restartCallbacks_>>

\* ExtensionManager.cpp:784-864 loadExtensionConfigs: createExtension for
\* every file, in the order readdir returns them
RECURSIVE LoadFrom(_, _)
LoadFrom(m, order) ==
    IF order = <<>> THEN m
    ELSE LoadFrom(IF m.files[Head(order)].present
                  THEN createExtension(m, Head(order), m.files[Head(order)].type,
                                       m.files[Head(order)].point).m
                  ELSE m,
                  Tail(order))

DirOrders == {o \in [1 .. Cardinality(ExtNames) -> ExtNames] :
                 \A i, j \in DOMAIN o : i # j => o[i] # o[j]}

LoadExtensionConfigs ==
    /\ ctl.pc = "idle"
    /\ \E order \in DirOrders : SetManager(LoadFrom(Manager, order))
    /\ resp' = Result("load", "", "true")
    /\ ctl' = Returning
    /\ UNCHANGED <<routers, fds, threadRegistry_, threadAttachments_,
                   restartCallbacks_>>

\* ExtensionManager.cpp:622-679 startExtension
startExtension(m, name) ==
    IF ~m.exts[name].present THEN [m |-> m, status |-> "false"]
    ELSE IF m.exts[name].isRunning THEN [m |-> m, status |-> "true"]
    ELSE LET old == m.exts[name].threadId
             c == IF old # 0
                  THEN [m EXCEPT !.ths = stopThread(m.ths, old),
                                 !.tm = [m.tm EXCEPT ![Attachment("extension_", name)] = 0]]
                  ELSE m
             l == launchExtensionThread(c, name)
         IN  [m |-> [l EXCEPT !.exts = [l.exts EXCEPT ![name].threadId = c.nt,
                                                      ![name].isRunning = TRUE]],
              status |-> "true"]

StartExtension(name) ==
    /\ ctl.pc = "idle"
    /\ LET c == startExtension(Manager, name)
       IN  /\ SetManager(c.m)
           /\ resp' = Result("start_extension", name, c.status)
    /\ ctl' = Returning
    /\ UNCHANGED <<routers, fds, threadRegistry_, threadAttachments_,
                   restartCallbacks_>>

\* A thread that is leaving its loop, or will at its next look at the exit
\* flag, ends well inside a join's 2 s or 5 s; any other live thread
\* outlasts the join.
ExitsPromptly(tid) ==
    /\ isThreadAlive(threads, tid)
    /\ \/ threads[tid].pc \in {"cleanup", "exited"}
       \/ threads[tid].pc = "loop" /\ routers[InstOf(tid)].should_exit

\* extensionMainloop->request_exit(0) through the pointer read from the
\* record (ExtensionManager.cpp:472, 588).  The pointer may outlive its
\* object (the thread deleted it at 226): the write then lands in whatever
\* Mainloop now lives at that address, or in none.
SignalExit(rs, ptr) ==
    IF rs[ptr].live THEN request_exit(rs, ptr, 0) ELSE rs

\* ExtensionManager.cpp:435-437, 544-546: one pass of the wait loop with the
\* mutex held: read the pointer; signal it (472, 588) or release the mutex
\* and sleep (440-441, 549-550)
PollRead(name, deleting, retries) ==
    LET ptr == extensions_[name].mainloopInstance
    IN  IF ptr # NULL
        THEN /\ routers' = SignalExit(routers, ptr)
             /\ ctl' = [pc |-> "join", name |-> name, deleting |-> deleting,
                        retries |-> 0]
        ELSE /\ routers' = routers
             /\ ctl' = [pc |-> "poll", name |-> name, deleting |-> deleting,
                        retries |-> retries]

\* ExtensionManager.cpp:518-546 stopExtension up to its first wait
StopExtension(name) ==
    /\ ctl.pc = "idle"
    /\ IF ~extensions_[name].present
       THEN /\ resp' = Result("stop_extension", name, "false")
            /\ ctl' = Returning
            /\ routers' = routers
       ELSE IF ~extensions_[name].isRunning
       THEN /\ resp' = Result("stop_extension", name, "true")
            /\ ctl' = Returning
            /\ routers' = routers
       ELSE /\ PollRead(name, FALSE, 0)
            /\ resp' = resp
    /\ UNCHANGED <<fds, threads, nextTid, tm_attach, extensions_, files,
                   threadRegistry_, threadAttachments_, restartCallbacks_>>

\* ExtensionManager.cpp:411-437, 503-515 deleteExtension up to its first
\* wait; a stopped extension is removed at once
DeleteExtension(name) ==
    /\ ctl.pc = "idle"
    /\ IF ~extensions_[name].present
       THEN /\ resp' = Result("delete_extension", name, "false")
            /\ ctl' = Returning
            /\ UNCHANGED <<routers, extensions_, files>>
       ELSE IF ~extensions_[name].isRunning
       THEN /\ resp' = Result("delete_extension", name, "true")
            /\ extensions_' = [extensions_ EXCEPT ![name] = NoExt]
            /\ files' = [files EXCEPT ![name] = NoFile]
            /\ ctl' = Returning
            /\ routers' = routers
       ELSE /\ PollRead(name, TRUE, 0)
            /\ resp' = resp
            /\ UNCHANGED <<extensions_, files>>
    /\ UNCHANGED <<fds, threads, nextTid, tm_attach,
                   threadRegistry_, threadAttachments_, restartCallbacks_>>

\* ExtensionManager.cpp:442-460, 551-569: the sleep ends, the mutex is taken
\* again, retries++; the loop reads again, or gives up and stopThread()s
PollWake ==
    /\ ctl.pc = "poll"
    /\ IF ctl.retries + 1 < maxRetries
       THEN /\ PollRead(ctl.name, ctl.deleting, ctl.retries + 1)
            /\ threads' = threads
       ELSE /\ threads' = stopThread(threads, extensions_[ctl.name].threadId)
            /\ ctl' = [ctl EXCEPT !.pc = "fallback", !.retries = 0]
            /\ routers' = routers
    /\ UNCHANGED <<fds, nextTid, tm_attach, extensions_, files, threadRegistry_,
                   threadAttachments_, restartCallbacks_, resp>>

\* ExtensionManager.cpp:461-515, 570-578, 593-614: joinThread returned
\* (the thread ended, or the 5 s / 2 s ran out), unregisterThread, the
\* record is marked stopped; deleteExtension goes on to remove the file
\* and the record
StopFinish ==
    /\ ctl.pc \in {"join", "fallback"}
    /\ \/ Joined(threads, extensions_[ctl.name].threadId)
       \/ ~ExitsPromptly(extensions_[ctl.name].threadId)
    /\ tm_attach' = [tm_attach EXCEPT ![Attachment("extension_", ctl.name)] = 0]
    /\ extensions_' = [extensions_ EXCEPT ![ctl.name] =
                          IF ctl.deleting THEN NoExt
                          ELSE [@ EXCEPT !.isRunning = FALSE, !.mainloopInstance = NULL]]
    /\ files' = IF ctl.deleting THEN [files EXCEPT ![ctl.name] = NoFile] ELSE files
    /\ resp' = Result(IF ctl.deleting THEN "delete_extension" ELSE "stop_extension",
                      ctl.name,
                      IF ctl.pc = "fallback" /\ ~ctl.deleting THEN "false" ELSE "true")
    /\ ctl' = Returning
    /\ UNCHANGED <<routers, fds, threads, nextTid, threadRegistry_,
                   threadAttachments_, restartCallbacks_>>

\* the command's caller has its result
Return ==
    /\ ctl.pc = "return"
    /\ ctl' = Idle
    /\ resp' = NoResp
    /\ UNCHANGED <<routers, fds, threads, nextTid, tm_attach, extensions_, files,
                   threadRegistry_, threadAttachments_, restartCallbacks_>>

(***************************************************************************)
(* RpcController                                                           *)
(* A command runs as one step; what registryMutex_ protects in between is  *)
(* not part of this model.                                                 *)
(***************************************************************************)
SUCCESS == "SUCCESS"
FAILED == "FAILED"
THREAD_NOT_FOUND == "THREAD_NOT_FOUND"
ALREADY_IN_STATE == "ALREADY_IN_STATE"
ThreadOperations == {"START", "STOP"}
ThreadTargets == {"MAINLOOP", "HTTP_SERVER", "STATISTICS", "ALL"}
\* the iteration order of std::map<std::string, ...>
SortedNames == <<"http_server", "mainloop", "statistics">>

Controller == [reg |-> threadRegistry_, att |-> threadAttachments_,
               ths |-> threads, tm |-> tm_attach, nt |-> nextTid, rs |-> routers]

\* RpcController.cpp:50-62 registerThread
registerThread(c, threadName, threadId, attachmentId) ==
    [c EXCEPT !.reg = [c.reg EXCEPT ![threadName] = threadId],
              !.att = [c.att EXCEPT ![threadName] = attachmentId],
              !.tm = [c.tm EXCEPT ![attachmentId] = threadId]]

\* A restart callback that creates the thread and registers nothing
restartCallbackUnregistered(c) ==
    [c EXCEPT !.ths = createThread(c.ths, c.nt, "main", ""), !.nt = c.nt + 1]

\* main.cpp:1115-1176: the restart callback of "mainloop": createThread of
\* the primary router's thread, registerThread("mainloop", id, "mainloop")
restartCallback(c) ==
    registerThread([c EXCEPT !.ths = createThread(c.ths, c.nt, "main", ""),
                             !.nt = c.nt + 1],
                   "mainloop", c.nt, Attachment("", "mainloop"))

\* RpcController.cpp:84-109 getThreadStateInfo
getThreadStateInfo(c, threadName) ==
    [threadName |-> threadName,
     threadId |-> c.reg[threadName],
     isAlive |-> c.reg[threadName] # 0 /\ isThreadAlive(c.ths, c.reg[threadName]),
     attachmentId |-> c.att[threadName]]

\* RpcController.cpp:144-383 executeOperationOnThread, START and STOP, up to
\* the snapshot: [c, status]
OperationOutcome(c, cbs, threadName, operation) ==
    IF c.reg[threadName] = 0
    THEN IF operation = "START" /\ threadName \in cbs
         THEN [c |-> restartCallback(c), status |-> SUCCESS]
         ELSE [c |-> c, status |-> THREAD_NOT_FOUND]
    ELSE LET threadId == c.reg[threadName]
             attachmentId == c.att[threadName]
         IN  IF operation = "START"
             THEN IF isThreadAlive(c.ths, threadId)
                  THEN [c |-> c, status |-> ALREADY_IN_STATE]
                  ELSE IF threadName \in cbs
                  THEN LET old == [c EXCEPT
                              !.ths = stopThread(c.ths, threadId),
                              !.tm = IF attachmentId # NoAttachment
                                     THEN [c.tm EXCEPT ![attachmentId] = 0] ELSE c.tm,
                              !.reg = [c.reg EXCEPT ![threadName] = 0],
                              !.att = [c.att EXCEPT ![threadName] = NoAttachment]]
                       IN  [c |-> restartCallback(old), status |-> SUCCESS]
                  ELSE [c |-> c, status |-> FAILED]
             ELSE IF threadName = "mainloop"
                  THEN [c |-> [c EXCEPT !.rs = request_exit(c.rs, MAIN, 0)],
                        status |-> SUCCESS]
                  ELSE [c |-> [c EXCEPT !.ths = stopThread(c.ths, threadId)],
                        status |-> SUCCESS]

\* RpcController.cpp:144-403 executeOperationOnThread: the operation, then
\* the thread's snapshot when the status is SUCCESS or ALREADY_IN_STATE
\* (169-171, 270-272, 385-391): [c, status, threadStates]
executeOperationOnThread(c, cbs, threadName, operation) ==
    LET r == OperationOutcome(c, cbs, threadName, operation)
    IN  [c |-> r.c, status |-> r.status,
         threadStates |-> IF r.status \in {SUCCESS, ALREADY_IN_STATE}
                          THEN {getThreadStateInfo(r.c, threadName)} ELSE {}]

\* RpcController.cpp:510-518 threadTargetToString
threadTargetToString(target) ==
    IF target = "MAINLOOP" THEN "mainloop"
    ELSE IF target = "HTTP_SERVER" THEN "http_server"
    ELSE IF target = "STATISTICS" THEN "statistics"
    ELSE "all"

\* RpcController.cpp:405-449 getThreadNamesForTarget
getThreadNamesForTarget(reg, cbs, target) ==
    LET one(n) == IF reg[n] # 0 \/ n \in cbs THEN <<n>> ELSE <<>>
        registered(n) == reg[n] # 0
        callbackOnly(n) == n \in cbs /\ reg[n] = 0
    IN  IF target = "MAINLOOP" THEN one("mainloop")
        ELSE IF target = "HTTP_SERVER" THEN one("http_server")
        ELSE IF target = "STATISTICS" THEN one("statistics")
        ELSE SelectSeq(SortedNames, registered) \o SelectSeq(SortedNames, callbackOnly)

\* RpcController.cpp:463-475: the loop over the target threads
RECURSIVE ExecuteOn(_, _, _, _, _, _)
ExecuteOn(names, c, cbs, operation, allSuccess, threadStates) ==
    IF names = <<>>
    THEN [c |-> c, allSuccess |-> allSuccess, threadStates |-> threadStates]
    ELSE LET r == executeOperationOnThread(c, cbs, Head(names), operation)
         IN  ExecuteOn(Tail(names), r.c, cbs, operation,
                       allSuccess /\ r.status = SUCCESS,
                       threadStates \cup r.threadStates)

\* RpcController.cpp:451-483 executeRequest: [c, status, threadStates]
executeRequest(c, cbs, operation, target) ==
    LET targetThreads == getThreadNamesForTarget(c.reg, cbs, target)
    IN  IF targetThreads = <<>>
        THEN [c |-> c, status |-> THREAD_NOT_FOUND, threadStates |-> {}]
        ELSE LET r == ExecuteOn(targetThreads, c, cbs, operation, TRUE, {})
             IN  [c |-> r.c, status |-> IF r.allSuccess THEN SUCCESS ELSE FAILED,
                  threadStates |-> r.threadStates]

Rpc(operation, target) ==
    /\ ctl.pc = "idle"
    /\ LET r == executeRequest(Controller, restartCallbacks_, operation, target)
       IN  /\ r.c.nt <= MaxThreads + 1
           /\ threadRegistry_' = r.c.reg
           /\ threadAttachments_' = r.c.att
           /\ threads' = r.c.ths
           /\ tm_attach' = r.c.tm
           /\ nextTid' = r.c.nt
           /\ routers' = r.c.rs
           /\ resp' = [Result(operation, target, r.status)
                         EXCEPT !.threadStates = r.threadStates]
    /\ ctl' = Returning
    /\ UNCHANGED <<fds, extensions_, files, restartCallbacks_>>

\* RpcController.cpp:485-488 startThread, 490-493 stopThread
StartThread(target) == Rpc("START", target)
StopThread(target) == Rpc("STOP", target)

TIMEOUT == "TIMEOUT"

\* RpcController.cpp:363-373: the status of the RESTART case after joinThread
restartStatus(stopped) == IF stopped THEN SUCCESS ELSE TIMEOUT

\* RpcController.cpp:468-479: executeRequest's status for one target thread
requestStatus(threadStatus) == IF threadStatus = SUCCESS THEN SUCCESS ELSE FAILED

\* RpcController.cpp:451-466, 144-191, 354-361: restartThread of one named
\* target, up to the wait in joinThread(threadId, 5 s); a name that is not
\* in the registry is answered at once
RestartThread(target) ==
    /\ ctl.pc = "idle"
    /\ LET targetThreads == getThreadNamesForTarget(threadRegistry_,
                                                    restartCallbacks_, target)
       IN  IF targetThreads = <<>>
           THEN /\ resp' = Result("RESTART", target, THREAD_NOT_FOUND)
                /\ ctl' = Returning
                /\ threads' = threads
           ELSE IF threadRegistry_[Head(targetThreads)] = 0
           THEN /\ resp' = Result("RESTART", target, requestStatus(THREAD_NOT_FOUND))
                /\ ctl' = Returning
                /\ threads' = threads
           ELSE /\ threads' = stopThread(threads, threadRegistry_[Head(targetThreads)])
                /\ ctl' = [Idle EXCEPT !.pc = "rjoin", !.name = Head(targetThreads)]
                /\ resp' = resp
    /\ UNCHANGED <<routers, fds, nextTid, tm_attach, extensions_, files,
                   threadRegistry_, threadAttachments_, restartCallbacks_>>

\* RpcController.cpp:361-394, 468-482: joinThread returned (the thread
\* ended, or the 5 s ran out); the status, the snapshot, the response
RestartFinish ==
    /\ ctl.pc = "rjoin"
    /\ LET threadId == threadRegistry_[ctl.name]
           stopped == Joined(threads, threadId)
           status == restartStatus(stopped)
       IN  /\ stopped \/ ~ExitsPromptly(threadId)
           /\ resp' = [Result("RESTART", ctl.name, requestStatus(status))
                         EXCEPT !.threadStates =
                           IF status = SUCCESS
                           THEN {getThreadStateInfo(Controller, ctl.name)} ELSE {}]
    /\ ctl' = Returning
    /\ UNCHANGED <<routers, fds, threads, nextTid, tm_attach, extensions_, files,
                   threadRegistry_, threadAttachments_, restartCallbacks_>>

\* main.cpp:1074-1082: the HTTP thread registers itself as "http_server"
HttpRegister(t) ==
    /\ Scheduled
    /\ threads[t].kind = "http" /\ threads[t].pc = "start"
    /\ LET c == registerThread(Controller, "http_server", t,
                               Attachment("", "http_server"))
       IN  /\ threadRegistry_' = c.reg
           /\ threadAttachments_' = c.att
           /\ tm_attach' = c.tm
    /\ threads' = [threads EXCEPT ![t].pc = "run"]
    /\ UNCHANGED <<routers, fds, nextTid, extensions_, files, ctl,
                   restartCallbacks_, resp>>

\* main.cpp:1115, RpcController.cpp:64-69 registerRestartCallback("mainloop", ...)
RegisterRestartCallback ==
    /\ Scheduled
    /\ "mainloop" \notin restartCallbacks_
    /\ restartCallbacks_' = restartCallbacks_ \cup {"mainloop"}
    /\ UNCHANGED <<routers, fds, threads, nextTid, tm_attach, extensions_, files,
                   ctl, threadRegistry_, threadAttachments_, resp>>

\* files left in the configuration directory by an earlier run
PriorDisk ==
    [n \in ExtNames |-> IF n = "y"
                        THEN [present |-> TRUE, type |-> "UDP", point |-> udp_configs[2]]
                        ELSE NoFile]


(***************************************************************************)
(* ExtensionManager: the configuration an extension is stored with, and    *)
(* its JSON file                                                           *)
(***************************************************************************)
\* ExtensionManager.h:21-30 ExtensionConfig; extension_thread_config is the
\* three fields tcp_port, udp_configs, tcp_configs.  An endpoint's name is
\* a point of the primary configuration or [prefix |-> extension name, n |-> 0]
NoConfig == [present |-> FALSE, name |-> "", type |-> "UDP", address |-> "",
             port |-> 0, point |-> NoPoint, tcp_port |-> 0,
             udp_configs |-> <<>>, tcp_configs |-> <<>>]
NoJson == [name |-> ""]

\* what a client sends as address and port, and what std::rand() returns
Addresses == {"", "10.0.0.7"}
Ports == {0, 14650}
RandomValues == {0, 1, 10000}

\* ExtensionManager.cpp:21-31
stringToExtensionType(typeStr) ==
    LET lower == IF typeStr = "INTERNAL" THEN "internal"
                 ELSE IF typeStr = "TCP" THEN "tcp"
                 ELSE IF typeStr = "UDP" THEN "udp" ELSE typeStr
    IN  IF lower = "internal" THEN "INTERNAL"
        ELSE IF lower = "tcp" THEN "TCP"
        ELSE "UDP"

\* ExtensionManager.cpp:33-40
extensionTypeToString(type) ==
    IF type = "INTERNAL" THEN "internal" ELSE IF type = "TCP" THEN "tcp" ELSE "udp"

\* ExtensionManager.cpp:866-883
validateExtensionConfig(config) ==
    config.name # "" /\ config.address # "" /\ config.port # 0

\* the primary configuration's entry for point p: its address and port, the
\* mode of a UDP entry, the retry_timeout of a TCP entry
GlobalUdp(p) == [name |-> p, address |-> "127.0.0.1", port |-> 14000 + p.n,
                 mode |-> "CLIENT"]
GlobalTcp(p) == [name |-> p, address |-> "127.0.0.1", port |-> 15000 + p.n,
                 retry_timeout |-> 0]

\* ExtensionManager.cpp:286-383: extension_thread_config is built anew: a
\* port from std::rand(), the assigned point as Server endpoint and the
\* extension itself as Client endpoint
buildThreadConfig(config, rnd) ==
    LET self == [prefix |-> config.name, n |-> 0]
    IN  IF config.type = "TCP"
        THEN [config EXCEPT
                 !.tcp_port = 50000 + (rnd % 10000),
                 !.udp_configs = <<>>,
                 !.tcp_configs = << GlobalTcp(config.point),
                                    [name |-> self, address |-> config.address,
                                     port |-> config.port, retry_timeout |-> 5000] >>]
        ELSE [config EXCEPT
                 !.tcp_port = 50000 + (rnd % 10000),
                 !.udp_configs = << [GlobalUdp(config.point) EXCEPT !.mode = "SERVER"],
                                    [name |-> self, address |-> config.address,
                                     port |-> config.port, mode |-> "CLIENT"] >>,
                 !.tcp_configs = <<>>]

\* ExtensionManager.cpp:247-383: the configuration createExtension stores for
\* config, rnd being what std::rand() returns: [exts, status]
createExtensionConfig(exts, config, rnd) ==
    IF exts[config.name].present
    THEN [exts |-> exts, status |-> "Extension already exists"]
    ELSE LET point == assignAvailableExtensionPoint(exts, config.type)
             modifiedConfig == [config EXCEPT !.present = TRUE, !.point = point]
         IN  IF point = NoPoint
             THEN [exts |-> exts, status |-> "No available extension points"]
             ELSE IF ~validateExtensionConfig(modifiedConfig)
             THEN [exts |-> exts, status |-> "Invalid extension configuration"]
             ELSE [exts |-> [exts EXCEPT ![config.name] =
                                 buildThreadConfig(modifiedConfig, rnd)],
                   status |-> "Success"]

\* ExtensionManager.cpp:717-767 saveExtensionConfig: the JSON document
UdpJson(udp) == [name |-> udp.name, address |-> udp.address, port |-> udp.port,
                 mode |-> IF udp.mode = "SERVER" THEN "Server" ELSE "Client"]
TcpJson(tcp) == [name |-> tcp.name, address |-> tcp.address, port |-> tcp.port,
                 retry_timeout |-> tcp.retry_timeout]
ExtensionJson(config) ==
    LET general == [tcp_server_port |-> config.tcp_port]
        udp == [i \in DOMAIN config.udp_configs |-> UdpJson(config.udp_configs[i])]
        tcp == [i \in DOMAIN config.tcp_configs |-> TcpJson(config.tcp_configs[i])]
        threadConfig ==
            IF config.udp_configs # <<>> /\ config.tcp_configs # <<>>
            THEN [general |-> general, udp_endpoints |-> udp, tcp_endpoints |-> tcp]
            ELSE IF config.udp_configs # <<>>
            THEN [general |-> general, udp_endpoints |-> udp]
            ELSE IF config.tcp_configs # <<>>
            THEN [general |-> general, tcp_endpoints |-> tcp]
            ELSE [general |-> general]
    IN  [name |-> config.name,
         type |-> extensionTypeToString(config.type),
         address |-> config.address,
         port |-> config.port,
         assigned_extension_point |-> config.point,
         extension_thread_config |-> threadConfig]

\* ExtensionManager.cpp:814-853 loadExtensionConfigs: the ExtensionConfig
\* read from a JSON document
UdpFromJson(ep) == [name |-> ep.name, address |-> ep.address, port |-> ep.port,
                    mode |-> IF ep.mode \in {"Server", "server"}
                             THEN "SERVER" ELSE "CLIENT"]
TcpFromJson(ep) == [name |-> ep.name, address |-> ep.address, port |-> ep.port,
                    retry_timeout |-> ep.retry_timeout]
ExtensionConfigFromJson(j) ==
    LET threadConfig == j.extension_thread_config
    IN  [present |-> FALSE,
         name |-> j.name,
         type |-> stringToExtensionType(j.type),
         address |-> j.address,
         port |-> j.port,
         point |-> j.assigned_extension_point,
         tcp_port |-> threadConfig.general.tcp_server_port,
         udp_configs |-> IF "udp_endpoints" \in DOMAIN threadConfig
                         THEN [i \in DOMAIN threadConfig.udp_endpoints |->
                                  UdpFromJson(threadConfig.udp_endpoints[i])]
                         ELSE <<>>,
         tcp_configs |-> IF "tcp_endpoints" \in DOMAIN threadConfig
                         THEN [i \in DOMAIN threadConfig.tcp_endpoints |->
                                  TcpFromJson(threadConfig.tcp_endpoints[i])]
                         ELSE <<>>]

\* ExtensionManager.cpp:247-409 createExtension, as to the configuration
\* stored and the file written (398)
PxCreateExtension(name, type, address, port, supplied) ==
    \E rnd \in RandomValues :
        LET config == [NoConfig EXCEPT !.name = name, !.type = type,
                          !.address = address, !.port = port, !.point = supplied]
            c == createExtensionConfig(px_extensions, config, rnd)
        IN  /\ px_extensions' = c.exts
            /\ px_files' = IF c.status = "Success"
                           THEN [px_files EXCEPT ![name] = ExtensionJson(c.exts[name])]
                           ELSE px_files
            /\ px_saved' = IF c.status = "Success"
                           THEN [px_saved EXCEPT ![name] = NoConfig]
                           ELSE px_saved

\* the process ends and is started again: extensions_ is empty, the files
\* are what the ended run last saved
PxRestart ==
    /\ px_saved' = [n \in ExtNames |-> IF px_extensions[n].present
                                        THEN px_extensions[n] ELSE px_saved[n]]
    /\ px_extensions' = [n \in ExtNames |-> NoConfig]
    /\ px_files' = px_files

\* ExtensionManager.cpp:784-864 loadExtensionConfigs: every file, in the
\* order readdir returns them, is parsed and handed to createExtension,
\* which saves the configuration it stored
RECURSIVE PxLoadFrom(_, _, _, _)
PxLoadFrom(exts, fs, order, rnds) ==
    IF order = <<>> THEN [exts |-> exts, fs |-> fs]
    ELSE LET n == Head(order)
         IN  IF fs[n].name = "" THEN PxLoadFrom(exts, fs, Tail(order), rnds)
             ELSE LET c == createExtensionConfig(exts, ExtensionConfigFromJson(fs[n]),
                                                 rnds[n])
                  IN  PxLoadFrom(c.exts,
                                 IF c.status = "Success"
                                 THEN [fs EXCEPT ![n] = ExtensionJson(c.exts[n])]
                                 ELSE fs,
                                 Tail(order), rnds)

PxLoadExtensionConfigs ==
    \E order \in DirOrders, rnds \in [ExtNames -> RandomValues] :
        LET l == PxLoadFrom(px_extensions, px_files, order, rnds)
        IN  /\ px_extensions' = l.exts
            /\ px_files' = l.fs
            /\ px_saved' = px_saved

(***************************************************************************)
(* The mutexes: ExtensionManager::extensionsMutex_,                        *)
(* RpcController::registryMutex_, and the thread table's mutex inside      *)
(* ThreadManager (spec.md 4.5).  A control path of the code is the         *)
(* sequence of its lock and unlock operations; a caller runs one path at   *)
(* a time, one operation per step.                                         *)
(***************************************************************************)
NumCallers == 2
Callers == 1 .. NumCallers
extensionsMutex_ == "extensionsMutex_"
registryMutex_ == "registryMutex_"
tableMutex == "ThreadManager.table"
Mutexes == {extensionsMutex_, registryMutex_, tableMutex}

Lock(m) == [do |-> "lock", m |-> m, cb |-> FALSE]
Unlock(m) == [do |-> "unlock", m |-> m, cb |-> FALSE]
\* the instructions of a restart callback running
InCallback(path) == [i \in DOMAIN path |-> [path[i] EXCEPT !.cb = TRUE]]

\* one call into ThreadManager: it takes and releases its table mutex
TmCall == <<Lock(tableMutex), Unlock(tableMutex)>>

\* RpcController.cpp:50-62 registerThread
RegisterThreadPath == <<Lock(registryMutex_)>> \o TmCall \o <<Unlock(registryMutex_)>>

\* main.cpp:1115-1176 the restart callback: createThread, registerThread
RestartCallbackPath == InCallback(TmCall \o RegisterThreadPath)

\* RpcController.cpp:84-109 getThreadStateInfo, called with the registry locked
ThreadStateInfoPath == TmCall

\* RpcController.cpp:125-142 getThreadStatus
ThreadStatusPath ==
    <<Lock(registryMutex_)>> \o ThreadStateInfoPath \o <<Unlock(registryMutex_)>>

\* RpcController.cpp:387-394: the snapshot after the switch
SnapshotPath ==
    <<Lock(registryMutex_)>> \o ThreadStateInfoPath \o <<Unlock(registryMutex_)>>

\* RpcController.cpp:148-183: the name is not registered and the operation
\* is not a START with a callback; the lock_guard of 148 unlocks at return
NotRegisteredPath == <<Lock(registryMutex_), Unlock(registryMutex_)>>

\* a START of an unregistered name that keeps the registry locked across
\* the callback
StartUnregisteredPathLocked ==
    <<Lock(registryMutex_)>> \o RestartCallbackPath
        \o ThreadStateInfoPath \o <<Unlock(registryMutex_)>>

\* RpcController.cpp:148-177: START of an unregistered name with a callback:
\* lock_guard (148), unlock() (161), the callback (164), a second
\* lock_guard (170), and at return both guards unlock
StartUnregisteredPath ==
    <<Lock(registryMutex_), Unlock(registryMutex_)>> \o RestartCallbackPath
        \o <<Lock(registryMutex_)>> \o ThreadStateInfoPath
        \o <<Unlock(registryMutex_), Unlock(registryMutex_)>>

\* RpcController.cpp:148-199, 285-375, 387-402: a registered name; START of a
\* live thread, STOP, PAUSE, RESUME, RESTART: lock_guard (148), unlock()
\* (191), the ThreadManager calls, the snapshot, the guard's unlock at return
RegisteredPath ==
    <<Lock(registryMutex_), Unlock(registryMutex_)>> \o TmCall \o SnapshotPath
        \o <<Unlock(registryMutex_)>>

\* RpcController.cpp:148-283, 387-402: START of a registered thread that is
\* not alive, with a callback
StartDeadPath ==
    <<Lock(registryMutex_), Unlock(registryMutex_)>> \o TmCall        \* 148, 191, 197
        \o <<Lock(registryMutex_), Unlock(registryMutex_)>>           \* 210-219
        \o TmCall                                                     \* 229-244
        \o <<Lock(registryMutex_), Unlock(registryMutex_)>>           \* 256-259
        \o RestartCallbackPath                                        \* 263
        \o <<Lock(registryMutex_)>> \o ThreadStateInfoPath
        \o <<Unlock(registryMutex_)>>                                 \* 270-276
        \o SnapshotPath \o <<Unlock(registryMutex_)>>                 \* 390-392, return

\* RpcController.cpp:148-219, 276-283, 396-402: the same without a callback,
\* and any path that ends in the catch clause: no snapshot
FailedPath ==
    <<Lock(registryMutex_), Unlock(registryMutex_)>> \o TmCall
        \o <<Lock(registryMutex_), Unlock(registryMutex_)>>
        \o <<Unlock(registryMutex_)>>

\* RpcController.cpp:148-191, 377-379: STATUS
StatusPath ==
    <<Lock(registryMutex_), Unlock(registryMutex_)>> \o ThreadStatusPath
        \o <<Unlock(registryMutex_)>>

\* ExtensionManager.cpp:247-409 createExtension with launchExtensionThread
\* (238-240), and 621-680 startExtension alike
CreateExtensionPath ==
    <<Lock(extensionsMutex_)>> \o TmCall \o <<Unlock(extensionsMutex_)>>

\* ExtensionManager.cpp:164-177: the extension thread publishes its pointer
PublishPath == <<Lock(extensionsMutex_), Unlock(extensionsMutex_)>>

\* ExtensionManager.cpp:518-614 stopExtension (411-515 deleteExtension
\* alike) with one sleep of its wait loop: lock_guard (519), unlock() (549),
\* lock() (551), the ThreadManager calls, the guard's unlock at return
StopExtensionPath ==
    <<Lock(extensionsMutex_), Unlock(extensionsMutex_), Lock(extensionsMutex_)>>
        \o TmCall \o <<Unlock(extensionsMutex_)>>

Paths ==
    [registerThread |-> RegisterThreadPath,
     notRegistered |-> NotRegisteredPath,
     startUnregistered |-> StartUnregisteredPath,
     registered |-> RegisteredPath,
     startDead |-> StartDeadPath,
     failed |-> FailedPath,
     status |-> StatusPath,
     createExtension |-> CreateExtensionPath,
     publish |-> PublishPath,
     stopExtension |-> StopExtensionPath]
PathNames == DOMAIN Paths

NoPath == [path |-> "", pc |-> 0, held |-> <<>>]
Running(p) == lp[p].path # ""
Instr(p) == Paths[lp[p].path][lp[p].pc]

\* the last element equal to m removed
RECURSIVE DropLast(_, _)
DropLast(q, m) ==
    IF q = <<>> THEN q
    ELSE IF q[Len(q)] = m THEN SubSeq(q, 1, Len(q) - 1)
    ELSE Append(DropLast(SubSeq(q, 1, Len(q) - 1), m), q[Len(q)])

Advance(p, held) ==
    IF lp[p].pc = Len(Paths[lp[p].path]) THEN NoPath
    ELSE [lp[p] EXCEPT !.pc = @ + 1, !.held = held]

\* a request or a thread body reaches one of the paths
LkBegin(p, path) ==
    /\ ~Running(p)
    /\ lp' = [lp EXCEPT ![p] = [path |-> path, pc |-> 1, held |-> <<>>]]
    /\ mtx' = mtx

\* std::mutex::lock: blocks while the mutex is locked
LkLock(p) ==
    /\ Running(p) /\ Instr(p).do = "lock"
    /\ mtx[Instr(p).m] = 0
    /\ mtx' = [mtx EXCEPT ![Instr(p).m] = p]
    /\ lp' = [lp EXCEPT ![p] = Advance(p, Append(lp[p].held, Instr(p).m))]

\* std::mutex::unlock by the caller that has it locked
LkUnlock(p) ==
    /\ Running(p) /\ Instr(p).do = "unlock"
    /\ mtx[Instr(p).m] = p
    /\ mtx' = [mtx EXCEPT ![Instr(p).m] = 0]
    /\ lp' = [lp EXCEPT ![p] = Advance(p, DropLast(lp[p].held, Instr(p).m))]

\* std::mutex::unlock by a caller that does not have it locked: undefined;
\* the mutex is left as it is, or is unlocked under whoever has it locked
LkUnlockNotOwned(p) ==
    /\ Running(p) /\ Instr(p).do = "unlock"
    /\ mtx[Instr(p).m] # p
    /\ \/ mtx' = mtx
       \/ mtx' = [mtx EXCEPT ![Instr(p).m] = 0]
    /\ lp' = [lp EXCEPT ![p] = Advance(p, DropLast(lp[p].held, Instr(p).m))]

(***************************************************************************)
(* EndpointStatistics: the periodic update                                 *)
(***************************************************************************)
\* endpoint_stats.h:331 MAX_ERROR_HISTORY is 50 and the history is kept for
\* 24 hours; the model narrows both, the clock and the write interval
MAX_ERROR_HISTORY == 2
MaxErrorAge == 2
MaxStatsNow == 4
StatsIntervals == 1 .. 2
RouterThread == 1

\* endpoint_stats.h:41-43, 369: JSON output disabled, no write made yet
NewStats ==
    [pc |-> "loop", owner |-> 0, enable_json_file_output |-> FALSE, path |-> FALSE,
     interval |-> 1, last |-> 0, now |-> 1, error_history |-> <<>>]

\* endpoint_stats.cpp:843-845 update_config
EsUpdateConfig(enable, path, interval) ==
    /\ es.pc = "loop"
    /\ es' = [es EXCEPT !.enable_json_file_output = enable, !.path = path,
                        !.interval = interval]
    /\ UNCHANGED <<mtx, lp>>

\* std::chrono::steady_clock moves on
EsTick ==
    /\ es.now < MaxStatsNow
    /\ es' = [es EXCEPT !.now = @ + 1]
    /\ UNCHANGED <<mtx, lp>>

\* endpoint_stats.cpp:407-419 log_endpoint_error, add_error_event: under
\* error_history_mutex, the event is appended and the oldest one dropped
\* beyond MAX_ERROR_HISTORY
EsLogError ==
    /\ es.pc = "loop" /\ es.owner = 0
    /\ LET h == Append(es.error_history, es.now)
       IN  es' = [es EXCEPT !.error_history =
                      IF Len(h) > MAX_ERROR_HISTORY THEN Tail(h) ELSE h]
    /\ UNCHANGED <<mtx, lp>>

\* the history without its leading events older than the cutoff
RECURSIVE DropOld(_, _)
DropOld(h, cutoff) ==
    IF h # <<>> /\ Head(h) < cutoff THEN DropOld(Tail(h), cutoff) ELSE h

\* mainloop.cpp:557-571 _log_aggregate_timeout, endpoint_stats.cpp:430-449
\* update_periodic_stats up to the call of write_json_to_file:
\* cleanup_old_errors (421-428) under the mutex, then the test of the
\* configuration and of the interval
EsUpdatePeriodic ==
    /\ es.pc = "loop" /\ es.owner = 0
    /\ es' = [es EXCEPT
                 !.error_history = DropOld(@, es.now - MaxErrorAge),
                 !.pc = IF /\ es.enable_json_file_output /\ es.path
                           /\ (es.last = 0 \/ es.now - es.last >= es.interval)
                        THEN "to_detailed_json" ELSE "loop"]
    /\ UNCHANGED <<mtx, lp>>

\* endpoint_stats.cpp:712-739, 578-700: write_json_to_file calls
\* to_detailed_json, which comes to the error summary and locks
\* error_history_mutex with a lock_guard
EsToDetailedJson ==
    /\ es.pc = "to_detailed_json" /\ es.owner = 0
    /\ es' = [es EXCEPT !.pc = "error_summary", !.owner = RouterThread]
    /\ UNCHANGED <<mtx, lp>>

\* std::mutex::lock by thread t on a mutex that is free or that t has locked
\* itself (the model has one thread at this mutex)
MutexLockOutcomes(owner, t) ==
    IF owner = t THEN {"blocks", "throws"} ELSE {"locks"}

\* endpoint_stats.cpp:702, 518-531: inside the error summary get_error_rate
\* locks error_history_mutex with a lock_guard of its own.  On a mutex that
\* is free it counts the recent errors and returns; the summary ends, the
\* guard of line 700 unlocks, the file is written and update_periodic_stats
\* stores the time (449).  std::mutex::lock by the thread that has the mutex
\* locked is undefined: the thread blocks for ever, or lock throws
\* system_error, which write_json_to_file catches (825) after the guard of
\* line 700 has unlocked
EsGetErrorRate ==
    /\ es.pc = "error_summary"
    /\ \E o \in MutexLockOutcomes(es.owner, RouterThread) :
          es' = IF o = "blocks" THEN [es EXCEPT !.pc = "blocked"]
                ELSE [es EXCEPT !.pc = "loop", !.owner = 0, !.last = es.now]
    /\ UNCHANGED <<mtx, lp>>

(***************************************************************************)
(* Specifications                                                          *)
(***************************************************************************)
vars == <<ddVars, rtVars, lcVars, pxVars, lkVars>>

\* The state after construction: an empty Dedup with period 0
\* (mainloop.h:142), a router with no endpoints, and main() up to the
\* creation of the HTTP thread, thread 1 (main.cpp:1098), with the
\* extension files an earlier run left on disk
Init ==
    /\ dd_period = 0                  \* mainloop.h:142  Dedup _msg_dedup{0}
    /\ dd_queue = <<>>
    /\ dd_set = {}
    /\ dd_now = 0
    /\ dd_obs = [p \in Payloads |-> NoObs]
    /\ dd_call = NoCall
    /\ dd_ins = NoInsertion
    /\ rt_endpoints = <<>>
    /\ rt_unknown = 0
    /\ rt_hangups = FALSE
    /\ rt_call = NoRoute
    /\ rt_timeouts = <<>>
    /\ rt_blocked = {}
    /\ routers = [i \in InstIds |-> IF i = MAIN THEN NewRouter ELSE NoRouter]
    /\ fds = [fd \in Fds |-> FREE]
    /\ threads = createThread([t \in Tids |-> NoThread], 1, "http", "")
    /\ nextTid = 2
    /\ tm_attach = [a \in Attachments |-> 0]
    /\ extensions_ = [n \in ExtNames |-> NoExt]
    /\ files = PriorDisk
    /\ ctl = Idle
    /\ threadRegistry_ = [n \in ThreadNames |-> 0]
    /\ threadAttachments_ = [n \in ThreadNames |-> NoAttachment]
    /\ restartCallbacks_ = {}
    /\ resp = NoResp
    /\ px_extensions = [n \in ExtNames |-> NoConfig]
    /\ px_files = [n \in ExtNames |-> NoJson]
    /\ px_saved = [n \in ExtNames |-> NoConfig]
    /\ mtx = [m \in Mutexes |-> 0]
    /\ lp = [p \in Callers |-> NoPath]
    /\ es = NewStats


DedupNext ==
    \/ SetDedupPeriod /\ UNCHANGED <<rtVars, lcVars, pxVars, lkVars>>
    \/ Tick /\ UNCHANGED <<rtVars, lcVars, pxVars, lkVars>>
    \/ CheckPacket /\ UNCHANGED <<rtVars, lcVars, pxVars, lkVars>>
SpecDedup == Init /\ [][DedupNext]_vars

RouteNext ==
    \/ RtAddEndpoint /\ UNCHANGED <<ddVars, lcVars, pxVars, lkVars>>
    \/ RouteMsg /\ UNCHANGED <<ddVars, lcVars, pxVars, lkVars>>
    \/ RtCanWrite /\ UNCHANGED <<ddVars, lcVars, pxVars, lkVars>>
    \/ RtLoopIteration /\ UNCHANGED <<ddVars, lcVars, pxVars, lkVars>>
SpecRoute == Init /\ [][RouteNext]_vars

\* One router's endpoint list from add_endpoints through the hangup sweeps
EndpointsNext ==
    \/ RtAddEndpoints /\ UNCHANGED <<ddVars, lcVars, pxVars, lkVars>>
    \/ RtReadError /\ UNCHANGED <<ddVars, lcVars, pxVars, lkVars>>
    \/ RtLoopIteration /\ UNCHANGED <<ddVars, lcVars, pxVars, lkVars>>
SpecEndpoints == Init /\ [][EndpointsNext]_vars

\* One router's timeout list over the iterations of loop()
TimeoutsNext ==
    \/ RtAddTimeout /\ UNCHANGED <<ddVars, lcVars, pxVars, lkVars>>
    \/ RtDelTimeout /\ UNCHANGED <<ddVars, lcVars, pxVars, lkVars>>
    \/ RtLoopIteration /\ UNCHANGED <<ddVars, lcVars, pxVars, lkVars>>
SpecTimeouts == Init /\ [][TimeoutsNext]_vars

\* The stored configurations over two runs of the process
PersistNext ==
    \/ \E n \in ExtNames, ty \in ExtTypes, a \in Addresses, p \in Ports,
          sp \in SuppliedPoints :
           PxCreateExtension(n, ty, a, p, sp) /\ UNCHANGED <<ddVars, rtVars, lcVars, lkVars>>
    \/ PxRestart /\ UNCHANGED <<ddVars, rtVars, lcVars, lkVars>>
    \/ PxLoadExtensionConfigs /\ UNCHANGED <<ddVars, rtVars, lcVars, lkVars>>
SpecPersist == Init /\ [][PersistNext]_vars

\* The callers of the controller and of the extension manager, and the
\* extension threads, through the mutexes
LocksNext ==
    \/ \E p \in Callers, path \in PathNames :
           LkBegin(p, path) /\ UNCHANGED <<ddVars, rtVars, lcVars, pxVars, es>>
    \/ \E p \in Callers : LkLock(p) /\ UNCHANGED <<ddVars, rtVars, lcVars, pxVars, es>>
    \/ \E p \in Callers : LkUnlock(p) /\ UNCHANGED <<ddVars, rtVars, lcVars, pxVars, es>>
    \/ \E p \in Callers :
           LkUnlockNotOwned(p) /\ UNCHANGED <<ddVars, rtVars, lcVars, pxVars, es>>
SpecLocks == Init /\ [][LocksNext]_vars

\* One endpoint's statistics: its configuration, the errors it records and
\* the periodic update of the router thread
StatsNext ==
    \/ \E enable, path \in BOOLEAN, interval \in StatsIntervals :
           EsUpdateConfig(enable, path, interval)
               /\ UNCHANGED <<ddVars, rtVars, lcVars, pxVars>>
    \/ EsTick /\ UNCHANGED <<ddVars, rtVars, lcVars, pxVars>>
    \/ EsLogError /\ UNCHANGED <<ddVars, rtVars, lcVars, pxVars>>
    \/ EsUpdatePeriodic /\ UNCHANGED <<ddVars, rtVars, lcVars, pxVars>>
    \/ EsToDetailedJson /\ UNCHANGED <<ddVars, rtVars, lcVars, pxVars>>
    \/ EsGetErrorRate /\ UNCHANGED <<ddVars, rtVars, lcVars, pxVars>>
SpecStats == Init /\ [][StatsNext]_vars

\* The controller with the primary router's thread and the HTTP thread
RpcNext ==
    \/ \E t \in Tids : HttpRegister(t) /\ UNCHANGED <<ddVars, rtVars, pxVars, lkVars>>
    \/ RegisterRestartCallback /\ UNCHANGED <<ddVars, rtVars, pxVars, lkVars>>
    \/ \E target \in ThreadTargets : StartThread(target) /\ UNCHANGED <<ddVars, rtVars, pxVars, lkVars>>
    \/ \E target \in ThreadTargets : StopThread(target) /\ UNCHANGED <<ddVars, rtVars, pxVars, lkVars>>
    \/ \E target \in ThreadTargets \ {"ALL"} :
           RestartThread(target) /\ UNCHANGED <<ddVars, rtVars, pxVars, lkVars>>
    \/ RestartFinish /\ UNCHANGED <<ddVars, rtVars, pxVars, lkVars>>
    \/ \E t \in Tids : MainThreadSetup(t) /\ UNCHANGED <<ddVars, rtVars, pxVars, lkVars>>
    \/ \E t \in Tids : MainThreadTeardown(t) /\ UNCHANGED <<ddVars, rtVars, pxVars, lkVars>>
    \/ \E t \in Tids : LoopExit(t) /\ UNCHANGED <<ddVars, rtVars, pxVars, lkVars>>
    \/ \E t \in Tids : LoopAccept(t) /\ UNCHANGED <<ddVars, rtVars, pxVars, lkVars>>
    \/ \E t \in Tids : LoopCriticalError(t) /\ UNCHANGED <<ddVars, rtVars, pxVars, lkVars>>
    \/ Return /\ UNCHANGED <<ddVars, rtVars, pxVars, lkVars>>
SpecRpc == Init /\ [][RpcNext]_vars

\* The same with the scheduler's guarantee: the thread of the primary
\* router takes the next step of its body (main.cpp:1119-1158) whenever it
\* can again and again, and a command that has its result returns.  The
\* initial sequence of the body has no wait in it: no thread stays in it
\* for ever.
Elsewhere == UNCHANGED <<ddVars, rtVars, pxVars, lkVars>>
InSetup(t) == threads[t].kind = "main" /\ threads[t].pc = "start"
FairSpecRpc ==
    /\ SpecRpc
    /\ \A t \in Tids : []<>(~InSetup(t))
    /\ SF_vars(\E t \in Tids : LoopExit(t) /\ Elsewhere)
    /\ SF_vars(\E t \in Tids : MainThreadTeardown(t) /\ Elsewhere)
    /\ WF_vars(Return /\ Elsewhere)

\* The whole system, with one extension name
SoloNames == {"x"}
Next ==
    \/ \E t \in Tids : HttpRegister(t) /\ UNCHANGED <<ddVars, rtVars, pxVars, lkVars>>
    \/ RegisterRestartCallback /\ UNCHANGED <<ddVars, rtVars, pxVars, lkVars>>
    \/ \E target \in ThreadTargets : StartThread(target) /\ UNCHANGED <<ddVars, rtVars, pxVars, lkVars>>
    \/ \E target \in ThreadTargets : StopThread(target) /\ UNCHANGED <<ddVars, rtVars, pxVars, lkVars>>
    \/ \E t \in Tids : MainThreadSetup(t) /\ UNCHANGED <<ddVars, rtVars, pxVars, lkVars>>
    \/ \E t \in Tids : MainThreadTeardown(t) /\ UNCHANGED <<ddVars, rtVars, pxVars, lkVars>>
    \/ \E t \in Tids : LoopExit(t) /\ UNCHANGED <<ddVars, rtVars, pxVars, lkVars>>
    \/ \E t \in Tids : LoopAccept(t) /\ UNCHANGED <<ddVars, rtVars, pxVars, lkVars>>
    \/ \E t \in Tids : LoopCriticalError(t) /\ UNCHANGED <<ddVars, rtVars, pxVars, lkVars>>
    \/ \E t \in Tids : ExtThreadStart(t) /\ UNCHANGED <<ddVars, rtVars, pxVars, lkVars>>
    \/ \E t \in Tids : ExtThreadDestroy(t) /\ UNCHANGED <<ddVars, rtVars, pxVars, lkVars>>
    \/ \E n \in SoloNames, ty \in ExtTypes, sp \in SuppliedPoints :
           CreateExtension(n, ty, sp) /\ UNCHANGED <<ddVars, rtVars, pxVars, lkVars>>
    \/ \E n \in SoloNames : StartExtension(n) /\ UNCHANGED <<ddVars, rtVars, pxVars, lkVars>>
    \/ \E n \in SoloNames : StopExtension(n) /\ UNCHANGED <<ddVars, rtVars, pxVars, lkVars>>
    \/ \E n \in SoloNames : DeleteExtension(n) /\ UNCHANGED <<ddVars, rtVars, pxVars, lkVars>>
    \/ PollWake /\ UNCHANGED <<ddVars, rtVars, pxVars, lkVars>>
    \/ StopFinish /\ UNCHANGED <<ddVars, rtVars, pxVars, lkVars>>
    \/ Return /\ UNCHANGED <<ddVars, rtVars, pxVars, lkVars>>
Spec == Init /\ [][Next]_vars

\* The extension manager with its extension threads, no primary router
ExtNext ==
    \/ \E t \in Tids : LoopExit(t) /\ UNCHANGED <<ddVars, rtVars, pxVars, lkVars>>
    \/ \E t \in Tids : LoopAccept(t) /\ UNCHANGED <<ddVars, rtVars, pxVars, lkVars>>
    \/ \E t \in Tids : LoopCriticalError(t) /\ UNCHANGED <<ddVars, rtVars, pxVars, lkVars>>
    \/ \E t \in Tids : ExtThreadStart(t) /\ UNCHANGED <<ddVars, rtVars, pxVars, lkVars>>
    \/ \E t \in Tids : ExtThreadDestroy(t) /\ UNCHANGED <<ddVars, rtVars, pxVars, lkVars>>
    \/ \E n \in ExtNames, ty \in ExtTypes, sp \in SuppliedPoints :
           CreateExtension(n, ty, sp) /\ UNCHANGED <<ddVars, rtVars, pxVars, lkVars>>
    \/ LoadExtensionConfigs /\ UNCHANGED <<ddVars, rtVars, pxVars, lkVars>>
    \/ \E n \in ExtNames : StartExtension(n) /\ UNCHANGED <<ddVars, rtVars, pxVars, lkVars>>
    \/ \E n \in ExtNames : StopExtension(n) /\ UNCHANGED <<ddVars, rtVars, pxVars, lkVars>>
    \/ \E n \in ExtNames : DeleteExtension(n) /\ UNCHANGED <<ddVars, rtVars, pxVars, lkVars>>
    \/ PollWake /\ UNCHANGED <<ddVars, rtVars, pxVars, lkVars>>
    \/ StopFinish /\ UNCHANGED <<ddVars, rtVars, pxVars, lkVars>>
    \/ Return /\ UNCHANGED <<ddVars, rtVars, pxVars, lkVars>>
SpecExt == Init /\ [][ExtNext]_vars

(***************************************************************************)
(* Properties: routing                                                     *)
(***************************************************************************)
Range(q) == {q[i] : i \in DOMAIN q}

\* C4: route_msg consults accept_msg on every endpoint, in order, and calls
\* write_msg on exactly the endpoints that answered Accepted, once each: as
\* many writes as Accepted answers, none to a Filtered or Rejected endpoint
C4_WritesExactlyAccepted ==
    LET n == Len(rt_call.acc)
        accepted == {i \in 1 .. n : rt_call.acc[i] = "Accepted"}
    IN  /\ rt_call.consulted = [i \in 1 .. n |-> i]
        /\ Range(rt_call.writes) = accepted
        /\ Len(rt_call.writes) = Cardinality(accepted)
        /\ \A i \in 1 .. n :
              rt_call.acc[i] \in {"Filtered", "Rejected"} => i \notin Range(rt_call.writes)

\* a routed frame that one endpoint accepted, one filtered and one rejected
C4_Witness ==
    /\ \E i, j, k \in 1 .. Len(rt_call.acc) :
          /\ rt_call.acc[i] = "Accepted"
          /\ rt_call.acc[j] = "Filtered"
          /\ rt_call.acc[k] = "Rejected"
          /\ rt_call.writes = <<i>>
    /\ Len(rt_call.consulted) = MaxEndpoints

\* C24: route_msg adds one to msg_to_unknown exactly when no endpoint
\* accepted the frame, so also when some endpoint filtered it and none
\* accepted
C24_UnknownCountedIffNoneAccepted ==
    [][\A acc \in [1 .. Len(rt_endpoints) -> AcceptStates],
         wr \in [1 .. Len(rt_endpoints) -> WriteResults] :
          (rt_unknown < MaxUnknown /\ route_msg(acc, wr)) =>
              ((rt_unknown' = rt_unknown + 1)
                  <=> (\A i \in 1 .. Len(rt_endpoints) : acc[i] # "Accepted"))]_vars

\* C25: in the list add_endpoints leaves, o is a group member of e exactly
\* when o is another endpoint with e's group name and that name is not empty
C25_LinkedIffSameNonEmptyGroup ==
    \A i, o \in DOMAIN rt_endpoints :
        (rt_endpoints[o].fd \in rt_endpoints[i].members)
            <=> (/\ o # i
                 /\ rt_endpoints[i].group # ""
                 /\ rt_endpoints[i].group = rt_endpoints[o].group)

\* what identifies an endpoint and decides its fate in the sweep
EndpointIds(eps) ==
    [i \in DOMAIN eps |-> [fd |-> eps[i].fd, type |-> eps[i].type,
                           valid |-> eps[i].valid, retry |-> eps[i].retry]]
Purged(e) == ~e.valid /\ e.type = ENDPOINT_TYPE_TCP /\ ~e.retry

\* C30: the hangup sweep removes exactly the invalid TCP endpoints whose
\* policy is not to retry, keeps all others in their order, and leaves
\* should_process_tcp_hangups false
C30_SweepRemovesInvalidTcpWithoutRetry ==
    [][(rt_hangups /\ RtLoopIteration) =>
          /\ EndpointIds(rt_endpoints')
                = SelectSeq(EndpointIds(rt_endpoints), LAMBDA e : ~Purged(e))
          /\ ~rt_hangups']_vars

\* a swept list of three from which the second, an invalid TCP endpoint
\* that does not retry, is gone, while an invalid UART endpoint and an
\* invalid TCP endpoint that retries are still there
C30_Witness ==
    /\ ~rt_hangups
    /\ Len(rt_endpoints) = 2
    /\ rt_endpoints[1].fd = 1 /\ rt_endpoints[2].fd = 3
    /\ rt_endpoints[1].type = ENDPOINT_TYPE_UART /\ ~rt_endpoints[1].valid
    /\ rt_endpoints[2].type = ENDPOINT_TYPE_TCP /\ ~rt_endpoints[2].valid
    /\ rt_endpoints[2].retry

\* C31: an endpoint's epoll interest holds EPOLLOUT exactly while its last
\* -EAGAIN from write_msg has not been followed by a handle_canwrite that
\* found the queue drained, and is EPOLLIN alone otherwise; a write that
\* returns -EPIPE sets should_process_tcp_hangups, and the end of the
\* iteration then runs the sweep and clears the flag before the next
\* ready-wait
C31_EpollOutWhileBlockedSweepAfterBrokenPipe ==
    [][/\ \A i \in DOMAIN rt_endpoints' :
             rt_endpoints'[i].events =
                 IF rt_endpoints'[i].fd \in rt_blocked' THEN EPOLLIN_OUT ELSE EPOLLIN
       /\ \A wr \in [1 .. Len(rt_endpoints) -> WriteResults] :
             (/\ rt_call' # rt_call
              /\ \E i \in DOMAIN wr : rt_call'.acc[i] = "Accepted" /\ wr[i] = "EPIPE"
              /\ route_msg(rt_call'.acc, wr)) => rt_hangups'
       /\ (rt_hangups /\ RtLoopIteration) =>
             /\ ~rt_hangups'
             /\ \A i \in DOMAIN rt_endpoints' : ~Purged(rt_endpoints'[i])]_vars

\* the last frame was written to endpoints 1 and 2; endpoint 1 is blocked
\* and waits for EPOLLOUT, endpoint 2 is not, and a broken pipe was seen
C31_Witness ==
    /\ Len(rt_endpoints) >= 2
    /\ rt_call.writes = <<1, 2>>
    /\ rt_blocked = {rt_endpoints[1].fd}
    /\ rt_endpoints[1].events = EPOLLIN_OUT
    /\ rt_endpoints[2].events = EPOLLIN
    /\ rt_hangups

TimeoutsOf(ts) == {ts[i].id : i \in DOMAIN ts}

\* C32: no step of an iteration before its end unlinks a Timeout; the end
\* of the iteration removes exactly the Timeouts flagged by del_timeout,
\* wherever they are in the list, and keeps the others in their order, so
\* that no flagged Timeout is left at the next ready-wait
C32_FlaggedTimeoutsRemovedAfterDispatch ==
    [][/\ ~(TimeoutsOf(rt_timeouts) \subseteq TimeoutsOf(rt_timeouts'))
             => RtLoopIteration
       /\ RtLoopIteration =>
             rt_timeouts' = SelectSeq(rt_timeouts, LAMBDA t : ~t.remove_me)]_vars

\* four Timeouts were linked, 4 at the head; the Timeout between 4 and 2
\* and the one at the tail are gone
C32_Witness ==
    rt_timeouts = <<[id |-> 4, remove_me |-> FALSE], [id |-> 2, remove_me |-> FALSE]>>

(***************************************************************************)
(* Properties: de-duplication                                              *)
(***************************************************************************)
\* C5: under a period > 0, a payload submitted again less than period ms
\* after a submission that was New is a Duplicate, and a payload submitted
\* after more than period ms without a submission of it is New
C5_DuplicateWithinPeriodNewAfter ==
    (dd_call.status # "none" /\ dd_call.period > 0 /\ dd_call.gap >= 0) =>
        /\ (dd_call.prev = NEW_PACKET_OR_TIMED_OUT /\ dd_call.gap < dd_call.period)
               => dd_call.status = ALREADY_EXISTS_IN_BUFFER
        /\ dd_call.gap > dd_call.period => dd_call.status = NEW_PACKET_OR_TIMED_OUT

\* C21: under a period > 0, a lookup reports Duplicate exactly when the
\* payload's hash was inserted less than period ms ago: an entry inserted at
\* t0 is gone for every lookup at or after t0 + period
C21_DuplicateIffInsertedWithinPeriod ==
    (dd_call.status # "none" /\ dd_call.period > 0) =>
        (dd_call.status = ALREADY_EXISTS_IN_BUFFER
            <=> (dd_call.ins >= 0 /\ dd_call.ins < dd_call.period))

\* C22: under a period > 0, a payload submitted again less than period ms
\* after a submission of it that was reported Duplicate is reported Duplicate
C22_ResubmittingKeepsDuplicate ==
    (dd_call.status # "none" /\ dd_call.period > 0
        /\ dd_call.prev = ALREADY_EXISTS_IN_BUFFER
        /\ dd_call.gap >= 0 /\ dd_call.gap < dd_call.period)
    => dd_call.status = ALREADY_EXISTS_IN_BUFFER

\* C23: with period 0, check_packet returns New for every payload and leaves
\* the queue and the hash set as they were
C23_PeriodZeroNewAndUntouched ==
    [][\A p \in Payloads :
          (dd_period = 0 /\ check_packet(p)) =>
              /\ dd_call'.status = NEW_PACKET_OR_TIMED_OUT
              /\ UNCHANGED <<dd_queue, dd_set>>]_vars

\* the same payload was offered twice in a row under period 0, and each time
\* reported New
C23_Witness ==
    /\ dd_period = 0 /\ dd_call.period = 0
    /\ dd_call.prev = NEW_PACKET_OR_TIMED_OUT
    /\ dd_call.status = NEW_PACKET_OR_TIMED_OUT
    /\ dd_call.gap = 0
    /\ dd_queue = <<>> /\ dd_set = {}

(***************************************************************************)
(* Properties: the exit flag                                               *)
(***************************************************************************)
\* This step calls request_exit(rc) on instance i: loop() on a critical
\* descriptor's error (mainloop.cpp:516), the controller's stop of "mainloop"
\* (RpcController.cpp:292), stopExtension/deleteExtension through the
\* record's pointer (ExtensionManager.cpp:472, 588)
RequestExitCalled(i, rc) ==
    \/ /\ rc = EXIT_FAILURE
       /\ \E t \in Tids : InstOf(t) = i /\ LoopCriticalError(t)
    \/ /\ rc = 0 /\ i = MAIN
       /\ threadRegistry_["mainloop"] # 0
       /\ \E target \in {"MAINLOOP", "ALL"} : StopThread(target)
    \/ /\ rc = 0 /\ i \in Heap
       /\ ctl.pc \in {"idle", "poll"} /\ ctl'.pc = "join"
       /\ extensions_[ctl'.name].mainloopInstance = i
       /\ routers[i].live

\* C1: request_exit(retcode) on instance R sets R's should_exit and R's
\* retcode, and leaves the should_exit and retcode of every other instance,
\* the singleton and the extension instances, as they were
C1_RequestExitOwnInstanceOnly ==
    [][\A i \in InstIds, rc \in {0, EXIT_FAILURE} :
          RequestExitCalled(i, rc) =>
              /\ routers'[i].should_exit
              /\ routers'[i].retcode = rc
              /\ \A o \in InstIds \ {i} :
                    /\ routers'[o].should_exit = routers[o].should_exit
                    /\ routers'[o].retcode = routers[o].retcode]_vars

\* an extension's instance was told to exit while the primary router's
\* thread is in its loop, not told to exit
C1_Witness ==
    /\ \E i \in Heap : /\ routers[i].live
                       /\ routers[i].should_exit
                       /\ routers[i].retcode = 0
    /\ \E t \in Tids : threads[t].kind = "main" /\ threads[t].pc = "loop"
    /\ ~routers[MAIN].should_exit

\* A step of stop_extension on the extension whose thread is t: the
\* manager's part is StopExtension, PollWake and StopFinish; the thread's
\* part, while the manager waits in joinThread, is the exit of its loop and
\* destroy_extension_instance
StopExtensionThreadStep(t) ==
    /\ ctl.pc = "join" /\ ~ctl.deleting
    /\ extensions_[ctl.name].threadId = t
    /\ LoopExit(t) \/ ExtThreadDestroy(t)

StopExtensionManagerStep(t) ==
    \/ \E n \in ExtNames : extensions_[n].threadId = t /\ StopExtension(n)
    \/ /\ ctl.pc \in {"poll", "join", "fallback"} /\ ~ctl.deleting
       /\ extensions_[ctl.name].threadId = t
       /\ PollWake \/ StopFinish

\* C2: no step of stop_extension(E) changes another router instance: no
\* other instance's exit flag or endpoint list changes, no descriptor owned
\* by another instance is closed, every other thread stays as it was
C2_StopExtensionTouchesNoOther ==
    [][\A t \in Tids :
          (threads[t].kind = "ext"
              /\ (StopExtensionThreadStep(t) \/ StopExtensionManagerStep(t))) =>
              /\ \A i \in InstIds \ {InstOf(t)} : routers'[i] = routers[i]
              /\ \A fd \in Fds : fds[fd] \notin {FREE, t} => fds'[fd] = fds[fd]
              /\ \A u \in Tids \ {t} :
                    /\ threads'[u].pc = threads[u].pc
                    /\ threads'[u].inst = threads[u].inst]_vars

\* C3: once request_exit has set an instance's flag, the flag stays set
\* until the thread that runs (or is about to run) that instance's loop()
\* has left the loop
C3_ExitFlagKeptUntilLoopReturns ==
    [][\A t \in Tids :
          (/\ threads[t].kind \in {"main", "ext"}
           /\ threads[t].pc \in {"start", "loop"}
           /\ InstOf(t) # NULL
           /\ routers[InstOf(t)].should_exit) =>
              \/ routers'[InstOf(t)].should_exit
              \/ threads'[t].pc \notin {"start", "loop"}]_vars

(***************************************************************************)
(* Properties: the extension manager                                       *)
(***************************************************************************)
\* C6: no two running extensions have the same assigned_extension_point
C6_RunningPointsDistinct ==
    \A a, b \in ExtNames :
        (/\ a # b
         /\ extensions_[a].present /\ extensions_[a].isRunning
         /\ extensions_[b].present /\ extensions_[b].isRunning) =>
            extensions_[a].point # extensions_[b].point

\* two running extensions of one type, so of one pool of points
C6_Witness ==
    /\ \A n \in ExtNames : extensions_[n].present /\ extensions_[n].isRunning
    /\ extensions_["x"].type = extensions_["y"].type
    /\ extensions_["x"].point # NoPoint /\ extensions_["y"].point # NoPoint

(***************************************************************************)
(* Properties: the thread controller                                       *)
(***************************************************************************)
NamedTargets == ThreadTargets \ {"ALL"}

\* the thread registered under the target's name is alive
RegisteredAlive(target) ==
    /\ threadRegistry_[threadTargetToString(target)] # 0
    /\ isThreadAlive(threads, threadRegistry_[threadTargetToString(target)])

\* C7: Stop with target ALL never sets the stop flag of the http_server
\* thread
C7_StopAllSparesHttpServer ==
    [][StopThread("ALL") =>
          \A t \in Tids : threads[t].kind = "http" => threads'[t].stop = threads[t].stop]_vars

\* C8: Start on a thread that is registered and alive returns
\* ALREADY_IN_STATE to the caller, creates no thread and leaves the
\* registry as it was
C8_StartAliveReturnsAlreadyInState ==
    [][\A target \in NamedTargets :
          (RegisteredAlive(target) /\ StartThread(target)) =>
              /\ resp'.status = ALREADY_IN_STATE
              /\ nextTid' = nextTid
              /\ threads' = threads
              /\ threadRegistry_' = threadRegistry_]_vars

\* Start on a thread that is unregistered or not alive, with a restart
\* callback: SUCCESS; the callback ran once (one thread, the next id, was
\* created); that id is what the name and its attachment are registered to,
\* the old registration is gone and the old thread was told to stop
RestartedBy(target) ==
    LET n == threadTargetToString(target)
        old == threadRegistry_[n]
    IN  /\ resp'.status = SUCCESS
        /\ nextTid' = nextTid + 1
        /\ isThreadAlive(threads', nextTid) /\ ~isThreadAlive(threads, nextTid)
        /\ \A t \in Tids \ {nextTid} : threads'[t].kind = threads[t].kind
        /\ threadRegistry_'[n] = nextTid /\ threadRegistry_'[n] # old
        /\ tm_attach'[threadAttachments_'[n]] = nextTid
        /\ old # 0 => threads'[old].stop

\* the call changed nothing but what it returns
NothingStarted ==
    /\ nextTid' = nextTid
    /\ threads' = threads
    /\ threadRegistry_' = threadRegistry_
    /\ tm_attach' = tm_attach

\* C9, as the code has it: Start on a thread that is unregistered or not
\* alive restarts it through the name's restart callback and returns
\* SUCCESS; without a callback nothing is started and the call returns
\* THREAD_NOT_FOUND for an unregistered name, FAILED for a registered one
C9_StartRestartsThroughCallback ==
    [][\A target \in NamedTargets :
          (~RegisteredAlive(target) /\ StartThread(target)) =>
              IF threadTargetToString(target) \in restartCallbacks_
              THEN RestartedBy(target)
              ELSE /\ NothingStarted
                   /\ resp'.status =
                         IF threadRegistry_[threadTargetToString(target)] = 0
                         THEN THREAD_NOT_FOUND ELSE FAILED]_vars

\* C9, as stated: the same, but FAILED whenever no callback is registered
C9_NoCallbackReturnsFailed ==
    [][\A target \in NamedTargets :
          (~RegisteredAlive(target) /\ StartThread(target)) =>
              IF threadTargetToString(target) \in restartCallbacks_
              THEN RestartedBy(target)
              ELSE resp'.status = FAILED]_vars

\* Start has just restarted "mainloop": thread 2, its earlier thread, has
\* ended and was told to stop; the name is registered to the new thread 3
C9_Witness ==
    /\ ctl.pc = "return"
    /\ resp.op = "START" /\ resp.target = "MAINLOOP" /\ resp.status = SUCCESS
    /\ threads[2].kind = "main" /\ threads[2].pc = "done" /\ threads[2].stop
    /\ threadRegistry_["mainloop"] = 3
    /\ threads[3].kind = "main" /\ threads[3].pc = "start"

\* C10: with a restart callback registered for mainloop and mainloop never
\* started, Stop of mainloop returns THREAD_NOT_FOUND and changes no router
\* and no registry
C10_StopUnstartedReturnsThreadNotFound ==
    [][(/\ "mainloop" \in restartCallbacks_
        /\ threadRegistry_["mainloop"] = 0
        /\ StopThread("MAINLOOP")) =>
           /\ resp'.status = THREAD_NOT_FOUND
           /\ routers' = routers
           /\ threadRegistry_' = threadRegistry_
           /\ threadAttachments_' = threadAttachments_]_vars

C12_ExtensionCleanupSparesPrimary ==
    [][\A t \in Tids :
          ExtThreadDestroy(t) =>
              /\ routers'[InstOf(t)] = NoRouter
              /\ \A fd \in Fds : fds[fd] = t => fds'[fd] = FREE
              /\ routers'[MAIN] = routers[MAIN]
              /\ \A fd \in Fds : fds[fd] = MAIN => fds'[fd] = MAIN]_vars

\* C13: once a router instance is destroyed (an extension thread has ended)
\* or torn down (no thread of the primary router is past its setup), no
\* descriptor that the instance opened is open: not the epoll descriptor,
\* an endpoint's socket, an accepted socket, the listener or a timer; so
\* also after add_endpoints opened some endpoints and failed on the next
C13_NoHandleOutlivesRouter ==
    /\ \A t \in Tids :
          (threads[t].kind = "ext" /\ threads[t].pc = "done") =>
              \A fd \in Fds : fds[fd] # t
    /\ (\A t \in Tids : threads[t].kind = "main" => threads[t].pc \in {"start", "done"}) =>
              \A fd \in Fds : fds[fd] # MAIN

\* the primary router's thread has ended after add_endpoints opened all its
\* endpoints but the last and failed: the three numbers it was given are
\* still in the tracked map, and none of its descriptors is open
C13_Witness ==
    /\ \E t \in Tids : threads[t].kind = "main" /\ threads[t].pc = "done"
    /\ \A t \in Tids : threads[t].kind = "main" => threads[t].pc = "done"
    /\ Cardinality(routers[MAIN].tracked) = MainEndpoints - 1
    /\ routers[MAIN].epollfd = -1
    /\ \A fd \in Fds : fds[fd] # MAIN

\* C14: at every moment the tracked map of a router instance holds exactly
\* the descriptors the instance has open: what the kernel hands it is
\* tracked, what it closes is untracked
C14_TrackedExactlyOpenHandles ==
    /\ routers[MAIN].tracked = {fd \in Fds : fds[fd] = MAIN}
    /\ \A t \in Tids :
          (threads[t].kind = "ext" /\ InstOf(t) # NULL) =>
              routers[InstOf(t)].tracked = {fd \in Fds : fds[fd] = t}

(***************************************************************************)
(* Properties: the extension manager's commands                            *)
(***************************************************************************)
\* the pool of a type and the pattern its names contain
\* (ExtensionManager.cpp:88-90, 106-108, 124-126)
PoolOf(type) == IF type = "TCP" THEN tcp_configs ELSE udp_configs
PatternOf(type) ==
    IF type = "INTERNAL" THEN "internal-router-point"
    ELSE IF type = "TCP" THEN "tcp-extension-point" ELSE "udp-extension-point"

\* p is the first entry, in configuration order, of type's pool that is
\* not in claimed; NoPoint when every entry of the pool is claimed
FirstUnclaimed(type, claimed, p) ==
    LET pool == PoolOf(type)
        free == {i \in DOMAIN pool :
                    pool[i].prefix = PatternOf(type) /\ pool[i] \notin claimed}
    IN  IF free = {} THEN p = NoPoint
        ELSE \E i \in free : p = pool[i] /\ \A j \in free : i <= j

\* a create_extension(name, type) step with the client's point supplied,
\* name being new, gives name the first point not in claimed
CreateAssigns(name, type, supplied, claimed) ==
    (~extensions_[name].present /\ CreateExtension(name, type, supplied)) =>
        \E p \in SuppliedPoints :
            /\ FirstUnclaimed(type, claimed, p)
            /\ p # NoPoint => /\ extensions_'[name].present
                              /\ extensions_'[name].point = p
                              /\ resp'.status = "Success"
            /\ p = NoPoint => resp'.status = "No available extension points"

\* C15 (as the code has it): create_extension ignores the supplied point and
\* assigns the first endpoint, in configuration order, of the pool of the
\* extension's type whose name is not the assigned point of any other
\* record of the manager, running or stopped
C15_AssignsFirstPointOfNoOtherRecord ==
    [][(ctl.pc = "idle" /\ resp'.op = "create") =>
       \A name \in {resp'.target}, type \in ExtTypes, supplied \in SuppliedPoints :
          CreateAssigns(name, type, supplied,
              {extensions_[n].point : n \in {o \in ExtNames : extensions_[o].present}})]_vars

\* C15 (as stated): the points of running extensions only are taken; an
\* extension stopped and not deleted does not keep its point
C15_AssignsFirstPointOfNoLiveExtension ==
    [][(ctl.pc = "idle" /\ resp'.op = "create") =>
       \A name \in {resp'.target}, type \in ExtTypes, supplied \in SuppliedPoints :
          CreateAssigns(name, type, supplied,
              {extensions_[n].point : n \in {o \in ExtNames :
                   extensions_[o].present /\ extensions_[o].isRunning}})]_vars

\* y was created while x, stopped and not deleted, held the first UDP point,
\* and got the second
C15_Witness ==
    /\ ctl.pc = "return" /\ resp.op = "create" /\ resp.target = "y"
    /\ resp.status = "Success"
    /\ extensions_["x"].present /\ ~extensions_["x"].isRunning
    /\ extensions_["x"].point = udp_configs[2]
    /\ extensions_["y"].point = udp_configs[3]

\* the points of the manager's records
RecordPoints ==
    {extensions_[n].point : n \in {o \in ExtNames : extensions_[o].present}}

\* C16: create_extension with no free point of the requested type returns
\* "No available extension points", and with a name that already exists
\* returns "Extension already exists"; either way no record is added or
\* changed, no thread is launched or registered, and no file is written
C16_FailedCreateChangesNothing ==
    [][(ctl.pc = "idle" /\ resp'.op = "create") =>
       \A name \in {resp'.target}, type \in ExtTypes, supplied \in SuppliedPoints :
          (extensions_[name].present \/ FirstUnclaimed(type, RecordPoints, NoPoint)) =>
              \/ /\ resp'.status = IF extensions_[name].present
                                   THEN "Extension already exists"
                                   ELSE "No available extension points"
                 /\ extensions_' = extensions_
                 /\ threads' = threads
                 /\ nextTid' = nextTid
                 /\ tm_attach' = tm_attach
                 /\ files' = files
              \/ ~CreateExtension(name, type, supplied)]_vars

\* a create_extension("x", TCP) was refused while y, running, holds the
\* only TCP point; x has no record and no file
C16_Witness ==
    /\ ctl.pc = "return" /\ resp.op = "create" /\ resp.target = "x"
    /\ resp.status = "No available extension points"
    /\ extensions_["y"].isRunning /\ extensions_["y"].point = tcp_configs[1]
    /\ ~extensions_["x"].present /\ ~files["x"].present

\* C17: stop_extension(name), name running with its instance pointer
\* published: the step that signals sets the exit flag of the instance of
\* name's thread and changes no other instance, the primary router's
\* least of all; the step that returns comes after the join, has
\* unregistered the thread, marked the record not running, cleared its
\* pointer, returns true, and leaves name's thread ended
C17_StopExtensionSignalsOwnInstanceAndJoins ==
    [][/\ (ctl.pc \in {"idle", "poll"} /\ ctl'.pc = "join" /\ ~ctl'.deleting) =>
            LET name == ctl'.name
                tid == extensions_[name].threadId
            IN  /\ extensions_[name].isRunning
                /\ extensions_[name].mainloopInstance # NULL
                /\ \A i \in InstIds \ {InstOf(tid)} : routers'[i] = routers[i]
                /\ InstOf(tid) # NULL =>
                       /\ routers'[InstOf(tid)].should_exit
                       /\ routers'[InstOf(tid)].retcode = 0
                /\ routers'[MAIN] = routers[MAIN]
       /\ (ctl.pc = "join" /\ ~ctl.deleting /\ ctl'.pc = "return") =>
            LET name == ctl.name
                tid == extensions_[name].threadId
            IN  /\ resp'.op = "stop_extension" /\ resp'.target = name
                /\ resp'.status = "true"
                /\ tm_attach'[Attachment("extension_", name)] = 0
                /\ ~extensions_'[name].isRunning
                /\ extensions_'[name].mainloopInstance = NULL
                /\ ~isThreadAlive(threads', tid)]_vars

\* the threads that are alive in ths
AliveIn(ths) == {t \in Tids : isThreadAlive(ths, t)}

\* C18: start_extension(name): on a stopped extension exactly one thread is
\* launched, for name, the record keeps its type and its point and gets the
\* new thread's id and isRunning, nothing else changes, and true is
\* returned; on a running extension nothing is launched or changed and true
\* is returned; on an unknown name nothing changes and false is returned
C18_StartExtensionLaunchesOnce ==
    [][(ctl.pc = "idle" /\ resp'.op = "start_extension") =>
          LET name == resp'.target
              old == extensions_[name]
          IN  /\ files' = files
              /\ \A o \in ExtNames \ {name} : extensions_'[o] = extensions_[o]
              /\ IF old.present /\ ~old.isRunning
                 THEN /\ resp'.status = "true"
                      /\ AliveIn(threads') \ AliveIn(threads) = {nextTid}
                      /\ threads'[nextTid].kind = "ext"
                      /\ threads'[nextTid].ext = name
                      /\ threads'[nextTid].pc = "start"
                      /\ nextTid' = nextTid + 1
                      /\ tm_attach'[Attachment("extension_", name)] = nextTid
                      /\ extensions_'[name] =
                             [old EXCEPT !.threadId = nextTid, !.isRunning = TRUE]
                 ELSE /\ resp'.status = IF old.present THEN "true" ELSE "false"
                      /\ extensions_' = extensions_
                      /\ threads' = threads
                      /\ nextTid' = nextTid
                      /\ tm_attach' = tm_attach]_vars

\* x, stopped with its first thread ended, was started again: thread 3 is
\* about to run x on the point x had
C18_Witness ==
    /\ ctl.pc = "return" /\ resp.op = "start_extension" /\ resp.target = "x"
    /\ resp.status = "true"
    /\ extensions_["x"].isRunning /\ extensions_["x"].threadId = 3
    /\ extensions_["x"].point = udp_configs[2]
    /\ threads[3].pc = "start" /\ threads[3].ext = "x"
    /\ threads[2].ext = "x" /\ threads[2].pc = "done"

\* C19: delete_extension(name).  On an unknown name: false, nothing changes.
\* On an existing one: a running extension is stopped as stop_extension
\* stops it (the signalling step sets the exit flag of the instance of
\* name's thread and changes no other instance; the thread is
\* unregistered), then the file and the record are removed and true is
\* returned: the name is unknown again and no record holds its point
C19_DeleteExtensionStopsAndRemoves ==
    [][/\ (ctl.pc = "idle" /\ resp'.op = "delete_extension"
              /\ ~extensions_[resp'.target].present) =>
            /\ resp'.status = "false"
            /\ UNCHANGED <<routers, fds, threads, nextTid, tm_attach, extensions_, files>>
       /\ (ctl.pc \in {"idle", "poll"} /\ ctl'.pc = "join" /\ ctl'.deleting) =>
            LET tid == extensions_[ctl'.name].threadId
            IN  /\ \A i \in InstIds \ {InstOf(tid)} : routers'[i] = routers[i]
                /\ InstOf(tid) # NULL => routers'[InstOf(tid)].should_exit
       /\ (resp'.op = "delete_extension" /\ ctl'.pc = "return"
              /\ extensions_[resp'.target].present) =>
            LET name == resp'.target
            IN  /\ resp'.status = "true"
                /\ ~extensions_'[name].present
                /\ ~files'[name].present
                /\ \A o \in ExtNames \ {name} :
                       extensions_'[o] = extensions_[o] /\ files'[o] = files[o]
                /\ extensions_[name].isRunning =>
                       tm_attach'[Attachment("extension_", name)] = 0
                /\ \A o \in ExtNames :
                       extensions_'[o].present =>
                           extensions_'[o].point # extensions_[name].point]_vars

(***************************************************************************)
(* Properties: persistence                                                 *)
(***************************************************************************)
\* C20: an extension configuration that was saved and is created again by
\* loadExtensionConfigs with the same assigned point is the configuration
\* that was saved: name, type, address, port, assigned_extension_point and
\* extension_thread_config (tcp_port and both endpoint lists)
C20_LoadedConfigEqualsSaved ==
    \A n \in ExtNames :
        (/\ px_saved[n].present
         /\ px_extensions[n].present
         /\ px_extensions[n].point = px_saved[n].point) =>
            px_extensions[n] = px_saved[n]

(***************************************************************************)
(* Properties: the controller's Restart                                    *)
(***************************************************************************)
\* C26: a Restart of a registered thread stops it, joins it, and answers
\* Success exactly when the thread ended within the join, Timeout when it
\* did not; it creates no thread
C26_RestartSuccessIffJoinedElseTimeout ==
    [][(ctl.pc = "rjoin" /\ RestartFinish) =>
          /\ threads[threadRegistry_[ctl.name]].stop
          /\ resp'.status = (IF Joined(threads, threadRegistry_[ctl.name])
                             THEN SUCCESS ELSE TIMEOUT)
          /\ nextTid' = nextTid /\ threads' = threads]_vars

(***************************************************************************)
(* Properties: the mutexes                                                 *)
(***************************************************************************)
\* extensionsMutex_ before registryMutex_ before the thread table's mutex
LockRank(m) ==
    IF m = extensionsMutex_ THEN 1 ELSE IF m = registryMutex_ THEN 2 ELSE 3

\* the caller is about to run the first instruction of a restart callback
AtCallbackEntry(p) ==
    /\ Running(p) /\ Instr(p).cb
    /\ lp[p].pc = 1 \/ ~Paths[lp[p].path][lp[p].pc - 1].cb

\* the caller waits for a mutex that is locked
Waiting(p) == Running(p) /\ Instr(p).do = "lock" /\ mtx[Instr(p).m] # 0

\* some callers wait for mutexes that only callers among them, or callers
\* that have left their path, would unlock
Deadlocked ==
    \E S \in SUBSET Callers :
        /\ S # {}
        /\ \A p \in S : Waiting(p) /\ (mtx[Instr(p).m] \in S \/ ~Running(mtx[Instr(p).m]))

\* C27: a caller locks the mutexes only in the order extensions, registry,
\* thread table; it enters a restart callback with the registry mutex
\* unlocked; and no callers are deadlocked on the mutexes
C27_LockOrderCallbackUnlockedNoDeadlock ==
    /\ \A p \in Callers : \A i, j \in DOMAIN lp[p].held :
           i < j => LockRank(lp[p].held[i]) < LockRank(lp[p].held[j])
    /\ \A p \in Callers :
           AtCallbackEntry(p) => \A i \in DOMAIN lp[p].held : lp[p].held[i] # registryMutex_
    /\ ~Deadlocked

\* one caller is inside the restart callback's registerThread, the registry
\* locked and the thread table next, while the other waits for the registry
C27_Witness ==
    \E p, q \in Callers :
        /\ p # q
        /\ lp[p].path = "startDead" /\ Instr(p).cb
        /\ lp[p].held = <<registryMutex_>> /\ Instr(p) = [Lock(tableMutex) EXCEPT !.cb = TRUE]
        /\ mtx[registryMutex_] = p
        /\ Waiting(q) /\ Instr(q).m = registryMutex_ /\ lp[q].path = "registered"

(***************************************************************************)
(* Properties: stopping the primary router's thread                        *)
(***************************************************************************)
\* Stop(mainloop) has just answered Success while thread t, the registered
\* thread of the primary router, is alive
StopAnswered(t) ==
    /\ ctl.pc = "return"
    /\ resp.op = "STOP" /\ resp.target = "MAINLOOP" /\ resp.status = SUCCESS
    /\ threadRegistry_["mainloop"] = t
    /\ threads[t].kind = "main" /\ isThreadAlive(threads, t)

\* C28: after a Stop(mainloop) answered with the primary router's thread
\* alive, at whatever point of its body, that thread terminates
C28_StopOfStartedRouterTerminatesIt ==
    \A t \in Tids : StopAnswered(t) ~> (threads[t].pc = "done")

(***************************************************************************)
(* Properties: stop_extension before the pointer is published              *)
(***************************************************************************)
\* the wait loop of stop_extension sleeps at most maxRetries times, and
\* extensionsMutex_ is free while it sleeps
PollBounded == ctl.pc = "poll" => ctl.retries < maxRetries /\ MutexFree

\* the step in which stop_extension gives up on the pointer and returns
FallbackReturns ==
    /\ ctl.pc = "fallback" /\ ~ctl.deleting
    /\ ctl'.pc = "return"

\* thread t of a stopped record goes into loop()
LoopsWhileStopped(t) ==
    /\ threads[t].kind = "ext" /\ threads[t].pc = "start"
    /\ threads'[t].pc = "loop"
    /\ extensions_'[threads[t].ext].present
    /\ extensions_'[threads[t].ext].threadId = t
    /\ ~extensions_'[threads[t].ext].isRunning

\* C29: stop_extension waits for the pointer at most maxRetries times with
\* extensionsMutex_ released; giving up, it stops and joins the thread
\* through the thread manager, marks the record not running and returns
\* false; and no thread runs a router loop for a record marked stopped
\* that way
C29_StopExtensionPollsThenFallsBack ==
    [][/\ PollBounded'
       /\ FallbackReturns =>
             /\ resp'.op = "stop_extension" /\ resp'.status = "false"
             /\ threads[extensions_[ctl.name].threadId].stop
             /\ ~extensions_'[ctl.name].isRunning
             /\ extensions_'[ctl.name].mainloopInstance = NULL
       /\ \A t \in Tids : ~LoopsWhileStopped(t)]_vars

(***************************************************************************)
(* Properties: the registry mutex                                          *)
(***************************************************************************)
\* C33: on every control path of the controller, a caller that comes to
\* unlock registryMutex_ has it locked: each unlock answers one lock of the
\* same caller, and none is made on a mutex that is not locked
C33_RegistryUnlockedOnlyByItsHolder ==
    \A p \in Callers :
        (Running(p) /\ Instr(p).do = "unlock" /\ Instr(p).m = registryMutex_)
            => mtx[registryMutex_] = p

(***************************************************************************)
(* Properties: the extension threads                                       *)
(***************************************************************************)
\* C34: the mainloopInstance pointer of every extension record is null or
\* the address of a router instance that has not been destroyed
C34_RecordPointerNullOrLive ==
    \A n \in ExtNames :
        (extensions_[n].present /\ extensions_[n].mainloopInstance # NULL)
            => routers[extensions_[n].mainloopInstance].live

\* the threads launched for extension n that are inside loop()
LoopingFor(n) ==
    {t \in Tids : threads[t].kind = "ext" /\ threads[t].ext = n
                      /\ threads[t].pc = "loop"}

\* C35: at most one thread at a time runs a router loop for an extension
\* name
C35_OneLoopingThreadPerExtension ==
    \A n \in ExtNames : Cardinality(LoopingFor(n)) <= 1

(***************************************************************************)
(* Properties: the thread of the primary router                            *)
(***************************************************************************)
\* the threads that are inside the body of the primary router's thread:
\* teardown/init/open/add_endpoints, loop(), or the teardown after it
OnPrimaryRouter ==
    {t \in Tids : threads[t].kind = "main"
                      /\ threads[t].pc \in {"start", "loop", "exited"}}

\* C36: whatever Start and Stop commands the controller is given on
\* "mainloop", at most one thread at a time runs open, add_endpoints, loop
\* or teardown on the primary router
C36_OneThreadOnPrimaryRouter == Cardinality(OnPrimaryRouter) <= 1

\* a thread of the primary router has ended and the next one, launched by a
\* later Start, runs
C36_Witness ==
    \E t, u \in Tids :
        /\ t < u
        /\ threads[t].kind = "main" /\ threads[t].pc = "done"
        /\ threads[u].kind = "main" /\ threads[u].pc = "loop"

\* the thread registered as "mainloop" has ended and a Stop delivered since
\* has left the exit flag of the primary router set
StaleStop ==
    /\ threadRegistry_["mainloop"] # 0
    /\ ~isThreadAlive(threads, threadRegistry_["mainloop"])
    /\ routers[MAIN].should_exit

\* a thread of the primary router is inside loop()
PrimaryLooping == \E t \in Tids : threads[t].kind = "main" /\ threads[t].pc = "loop"

\* C37: a Stop(mainloop) delivered while the registered thread of the
\* primary router has already ended does not prevent the next
\* Start(mainloop): that Start launches a thread, the exit flag is clear
\* when that thread enters loop(), and the thread leaves loop() only on a
\* flag set after that, by a later Stop or by the loop itself; a Stop
\* answered while the thread is in loop() ends it
C37_StaleStopDoesNotPreventStart ==
  /\ \A t \in Tids :
        (StopAnswered(t) /\ threads[t].pc = "loop") ~> (threads[t].pc = "done")
  /\
    [][/\ (StaleStop /\ ctl.pc = "idle" /\ ctl'.pc = "return"
              /\ resp'.op = "START" /\ resp'.target = "MAINLOOP") =>
             /\ resp'.status = SUCCESS
             /\ nextTid' = nextTid + 1
             /\ threads'[nextTid].kind = "main" /\ threads'[nextTid].pc = "start"
             /\ threadRegistry_'["mainloop"] = nextTid
       /\ \A t \in Tids :
             (threads[t].kind = "main" /\ threads[t].pc = "start"
                  /\ threads'[t].pc = "loop") => ~routers'[MAIN].should_exit
       /\ \A t \in Tids :
             (threads[t].kind = "main" /\ threads[t].pc = "loop"
                  /\ threads'[t].pc # "loop") => routers[MAIN].should_exit
       /\ (PrimaryLooping /\ ~routers[MAIN].should_exit
              /\ routers'[MAIN].should_exit) =>
             \/ ctl.pc = "idle" /\ ctl'.pc = "return" /\ resp'.op = "STOP"
             \/ \E t \in Tids : LoopCriticalError(t)]_vars

\* Start(mainloop) has just been answered SUCCESS with the flag of a stale
\* Stop still set: the thread it launched has not run yet, the one before
\* it has ended
C37_Witness ==
    /\ ctl.pc = "return" /\ resp.op = "START" /\ resp.status = SUCCESS
    /\ routers[MAIN].should_exit
    /\ \E t, u \in Tids :
          /\ u < t
          /\ threads[u].kind = "main" /\ threads[u].pc = "done"
          /\ threads[t].kind = "main" /\ threads[t].pc = "start"
          /\ threadRegistry_["mainloop"] = t

(***************************************************************************)
(* Properties: the statistics update                                       *)
(***************************************************************************)
\* C38: the periodic statistics update of an endpoint with JSON file output
\* enabled always terminates: the router thread never comes to lock
\* error_history_mutex in get_error_rate while it has that mutex locked
\* itself, and is never blocked on it for ever
C38_NoRelockOfErrorHistoryMutex ==
    /\ es.pc = "error_summary" => es.owner # RouterThread
    /\ es.pc # "blocked"

(***************************************************************************)
(* Properties: the structures of the de-duplication cache                  *)
(***************************************************************************)
\* _packet_hash_set holds exactly the hashes of _time_hash_queue
SetIsQueue == dd_set = {dd_queue[i][2] : i \in DOMAIN dd_queue}

\* no hash is in _time_hash_queue twice
OncePerHash ==
    \A i, j \in DOMAIN dd_queue : i # j => dd_queue[i][2] # dd_queue[j][2]

\* the timestamps of _time_hash_queue do not decrease from front to back
TimeOrdered ==
    \A i \in 1 .. Len(dd_queue) - 1 : dd_queue[i][1] <= dd_queue[i + 1][1]

\* C39: in every reachable state of a Dedup cache with period > 0, the set
\* of hashes is the set of the hashes in the queue, each hash is in the
\* queue at most once, and the queue's timestamps are non-decreasing from
\* front to back
C39_SetIsQueueOnceInTimeOrder ==
    dd_period > 0 => SetIsQueue /\ OncePerHash /\ TimeOrdered

====
